---------------------------- MODULE Spec2Model ----------------------------
(***************************************************************************)
(* NearMart backend: catalog stock operations, the customer's cart, the    *)
(* cart-to-order commit, the order status machine and the geocoder with    *)
(* its cache and rate limit, as state machines.                            *)
(*                                                                         *)
(* Every request handler is an async function.  Each `await` on the store  *)
(* is a point where other requests may run, so a handler is a sequence of  *)
(* atomic steps, one per awaited store call together with the synchronous  *)
(* code that follows it.  A request slot (a member of Tasks) holds the     *)
(* handler's position (pc) and its local variables, among them the         *)
(* in-memory documents it loaded.                                          *)
(*                                                                         *)
(* Documents are Mongoose documents.  doc.save() of a loaded document      *)
(* writes only the paths the handler modified: a scalar assignment is a    *)
(* $set of that path, and assigning the value the path already has leaves  *)
(* it unmodified; array.push is a $push that appends to the stored         *)
(* array and increments the version key __v; assigning an element's field  *)
(* (items[i].quantity = n) is a positional $set that requires the stored   *)
(* __v to equal the loaded one; assigning the whole array (filter, [])     *)
(* requires the loaded __v and increments it.  Validators and pre('save')  *)
(* hooks run on the in-memory document before the write.  The pre('save')  *)
(* hook of OrderSchema is taken to have given a new order its orderNumber  *)
(* when the document is validated and inserted.                            *)
(*                                                                         *)
(* Money is in cents.  The geocoder's clock (Date.now()) counts ticks.     *)
(***************************************************************************)
EXTENDS Integers, Sequences, FiniteSets, TLC

\* ------------------------------------------------------------------ bounds
MaxStock == 3
MaxQty == 2
MaxStockRequests == 3
MaxCartRequests == 2
MaxOrderRequests == 2
MaxCommitRequests == 2
MaxOrderNumbers == 2
MaxTotalsRequests == 3
MaxQtyRequests == 2
MaxFrameRequests == 2
MaxGeoRequests == 2
MaxTime == 2
\* CACHE_MAX_SIZE (100), CACHE_TTL (30 days), GEOCODER_RATE_LIMIT (60) and
\* GEOCODER_RATE_LIMIT_INTERVAL (60 s), scaled down; time is in ticks.
MaxCacheSize == 2
MaxCacheTtl == 1
MaxRateLimit == 2
MaxRateInterval == 1

\* ---------------------------------------------------------------- universe
Tasks == {"t1", "t2"}
Products == {"p1", "p2", "p3"}
Retailers == {"rA", "rB"}

\* Product.retailer: set at creation (POST /products), never reassigned.
ProductRetailer(p) == IF p = "p3" THEN "rB" ELSE "rA"

Stocks == 0..MaxStock
Qtys == 1..MaxQty

VARIABLES
  products,   \* the products collection: [Products -> document]
  cart,       \* the customer's cart document in the carts collection
  orders,     \* the orders collection, a sequence of order documents
  tasks,      \* [Tasks -> request slot]
  started,    \* number of requests started so far
  limit,      \* the number of requests the specification allows
  sold,       \* [Products -> units removed by successful updateStock calls]
  supplied,   \* [Products -> initial stock plus units added by restocks]
  geo         \* the geocoder module's state: cache, apiCalls and the clock

vars == <<products, cart, orders, tasks, started, limit, sold, supplied, geo>>

Idle == [pc |-> "idle"]

\* A new request takes the first slot that holds no running handler (the
\* slots are interchangeable), while the specification's budget lasts.
Vacant(t) == tasks[t].pc \in {"idle", "done"}
Free(t) ==
  /\ Vacant(t)
  /\ t = "t2" => ~Vacant("t1")
  /\ started < limit

\* A finished request: its kind, its outcome and what the caller is told.
Done(op, res) == [pc |-> "done", op |-> op, res |-> res]

\* =============================================================== geocoder

\* maxRetries, the default of geocodeAddress and reverseGeocode.
DefaultMaxRetries == 2

\* Addresses as callers format them, and coordinates for reverseGeocode.
Addresses == {"main", "MAIN", "oak"}
Coordinates == {"c1"}

\* formattedAddress.toLowerCase()
\* (KeyExact: the address itself as the key.)
KeyExact(a) == a
Lower(a) == IF a = "MAIN" THEN "main" ELSE a

\* The cache key of reverseGeocode.
ReverseKey(c) == "reverse_" \o c

\* geocodeCache (a Map, entries in insertion order) and apiCalls when the
\* module is loaded at time 0.
GeoInit ==
  [cache |-> <<>>, count |-> 0, resetTime |-> MaxRateInterval, now |-> 0]

\* The module after one geocodeAddress("main") that succeeded at its first
\* attempt at time 0.
GeoWarm ==
  [GeoInit EXCEPT !.cache = <<[key |-> "main", value |-> "x1", ts |-> 0]>>,
                  !.count = 1]

\* geocodeCache.has(key) / get(key): the index of the entry, 0 for none.
RECURSIVE CacheIndexFrom(_, _, _)
CacheIndexFrom(cache, key, i) ==
  IF i > Len(cache) THEN 0
  ELSE IF cache[i].key = key THEN i
  ELSE CacheIndexFrom(cache, key, i + 1)

CacheIndex(cache, key) == CacheIndexFrom(cache, key, 1)

\* geocodeCache.delete(key of entry i)
CacheDelete(cache, i) ==
  [j \in 1..(Len(cache) - 1) |-> IF j < i THEN cache[j] ELSE cache[j + 1]]

\* geocodeCache.set(key, {value, timestamp}): an existing key keeps its
\* place in the Map.
CacheSet(cache, key, value, ts) ==
  LET i == CacheIndex(cache, key)
      e == [key |-> key, value |-> value, ts |-> ts] IN
    IF i > 0 THEN [cache EXCEPT ![i] = e] ELSE Append(cache, e)

\* [...entries()].sort((a, b) => a[1].timestamp - b[1].timestamp)[0]: the
\* first entry, in insertion order, with the least timestamp.
\* (NewestIndex: the last entry with the greatest timestamp.)
NewestIndex(cache) ==
  CHOOSE i \in 1..Len(cache) :
    \A j \in 1..Len(cache) :
      cache[j].ts < cache[i].ts \/ (cache[j].ts = cache[i].ts /\ j <= i)
OldestIndex(cache) ==
  CHOOSE i \in 1..Len(cache) :
    \A j \in 1..Len(cache) :
      cache[j].ts > cache[i].ts \/ (cache[j].ts = cache[i].ts /\ j >= i)

\* oldestKey, the key deleted (and logged) after a set if the size exceeds
\* CACHE_MAX_SIZE; "none" if nothing is deleted.
OldestKey(cache) ==
  IF Len(cache) > MaxCacheSize THEN cache[OldestIndex(cache)].key ELSE "none"

\* The eviction after a set: one entry removed if the size exceeds
\* CACHE_MAX_SIZE.
CacheTrim(cache) ==
  IF Len(cache) > MaxCacheSize THEN CacheDelete(cache, OldestIndex(cache))
  ELSE cache

\* Whether a cache entry is still valid at time now.
\* (FreshNever: a cache whose entries are never valid.)
Fresh(entry, now) == entry.ts + MaxCacheTtl > now

\* checkRateLimit(): apiCalls after the reset of an elapsed window.
CheckRateLimit(g) ==
  IF g.now > g.resetTime
    THEN [g EXCEPT !.count = 0, !.resetTime = g.now + MaxRateInterval]
  ELSE g

\* attempt === maxRetries in the catch of the retry loop.
\* (LastAttemptNever: a loop that always retries.)
LastAttemptNever(attempt, maxRetries) == FALSE
LastAttempt(attempt, maxRetries) == attempt = maxRetries

\* geocodeAddress / reverseGeocode up to the first await: the cache
\* lookup (a valid entry is returned, an expired one deleted), the rate
\* limit check, then apiCalls.count++ and the first external call.
CallStart(t, op, arg, key, mr) ==
  /\ Free(t)
  /\ started' = started + 1
  /\ LET i == CacheIndex(geo.cache, key)
         hit == i > 0 /\ Fresh(geo.cache[i], geo.now)
         g1 == IF i > 0 THEN [geo EXCEPT !.cache = CacheDelete(@, i)] ELSE geo
         g2 == CheckRateLimit(g1) IN
       IF hit THEN
         /\ tasks' = [tasks EXCEPT ![t] =
              Done(op, "Ok") @@ [arg |-> arg, key |-> key, attempts |-> 0,
                                 mr |-> mr, value |-> geo.cache[i].value]]
         /\ UNCHANGED geo
       ELSE IF g2.count >= MaxRateLimit THEN
         /\ tasks' = [tasks EXCEPT ![t] =
              Done(op, "RateLimited") @@
                [arg |-> arg, key |-> key, attempts |-> 0, mr |-> mr]]
         /\ geo' = g2
       ELSE
         /\ tasks' = [tasks EXCEPT ![t] =
              [pc |-> "geo_call", op |-> op, arg |-> arg, key |-> key,
               mr |-> mr, attempt |-> 0, attempts |-> 1]]
         /\ geo' = [g2 EXCEPT !.count = @ + 1]
  /\ UNCHANGED <<products, cart, orders, sold, supplied, limit>>

geocodeAddress(t, a, mr) == CallStart(t, "geocodeAddress", a, Lower(a), mr)

reverseGeocode(t, c, mr) ==
  CallStart(t, "reverseGeocode", c, ReverseKey(c), mr)

\* The external call returns: a result, which is cached (and the cache
\* trimmed) and returned, or an error or an empty result, after which the
\* call gives up or sleeps before the next attempt.
AttemptReturn(t, ok, value) ==
  /\ tasks[t].pc = "geo_call"
  /\ IF ok THEN
       /\ geo' = [geo EXCEPT !.cache =
            CacheTrim(CacheSet(@, tasks[t].key, value, geo.now))]
       /\ tasks' = [tasks EXCEPT ![t] =
            Done(@.op, "Ok") @@
              [arg |-> @.arg, key |-> @.key, attempts |-> @.attempts,
               mr |-> @.mr, value |-> value,
               removed |-> OldestKey(CacheSet(geo.cache, @.key, value, geo.now))]]
     ELSE
       /\ UNCHANGED geo
       /\ tasks' = [tasks EXCEPT ![t] =
            IF LastAttempt(@.attempt, @.mr)
              THEN Done(@.op, "Failed") @@
                     [arg |-> @.arg, key |-> @.key, attempts |-> @.attempts,
                      mr |-> @.mr]
            ELSE [@ EXCEPT !.pc = "geo_sleep"]]
  /\ UNCHANGED <<products, cart, orders, started, sold, supplied, limit>>

\* sleep(retryDelay * (attempt + 1)) is over: the next pass of the loop,
\* apiCalls.count++ and the external call.
RetryWake(t) ==
  /\ tasks[t].pc = "geo_sleep"
  /\ tasks' = [tasks EXCEPT ![t] =
       [@ EXCEPT !.pc = "geo_call", !.attempt = @ + 1, !.attempts = @ + 1]]
  /\ geo' = [geo EXCEPT !.count = @ + 1]
  /\ UNCHANGED <<products, cart, orders, started, sold, supplied, limit>>

\* Date.now() advances.
Tick ==
  /\ geo.now < MaxTime
  /\ geo' = [geo EXCEPT !.now = @ + 1]
  /\ UNCHANGED <<products, cart, orders, tasks, started, sold, supplied, limit>>

\* ================================================================ catalog

\* ProductSchema.stock validators: min 0, whole number.  (StockMin0Loose:
\* the schema without its min validator.)
StockMin0Loose(s) == TRUE
StockValid(s) == s >= 0

\* Product.findById: the document, or null.
FindProduct(p) ==
  IF products[p].exists THEN [found |-> TRUE, doc |-> products[p]]
  ELSE [found |-> FALSE, doc |-> products[p]]

\* product.stock -= quantity in updateStock.  (DecrementedByOne: a
\* decrement of one unit whatever the quantity.)
DecrementedByOne(stock, quantity) == stock - 1
Decremented(stock, quantity) == stock - quantity

\* The guard of updateStock, on the stock it read.
\* (UpdateStockRejectsNever: updateStock without the guard.)
UpdateStockRejectsNever(stock, quantity) == FALSE
UpdateStockRejects(stock, quantity) == stock < quantity

\* Product.updateStock, up to its save(): findById, the two throws, and the
\* in-memory product.stock -= quantity.
UpdateStockFind(t, p, q) ==
  /\ Free(t)
  /\ started' = started + 1
  /\ LET r == FindProduct(p) IN
       tasks' = [tasks EXCEPT ![t] =
         IF ~r.found THEN Done("updateStock", "NotFound") @@ [p |-> p, q |-> q]
         ELSE IF UpdateStockRejects(r.doc.stock, q)
           THEN Done("updateStock", "InsufficientStock") @@ [p |-> p, q |-> q]
         ELSE [pc |-> "us_save", op |-> "updateStock", p |-> p, q |-> q,
               read |-> r.doc.stock, newStock |-> Decremented(r.doc.stock, q)]]
  /\ UNCHANGED <<products, cart, orders, sold, supplied, limit, geo>>

\* product.save() in updateStock: validates, then $set stock to the value
\* computed from the stock read earlier.  A document deleted meanwhile
\* matches nothing and the save rejects.
UpdateStockSave(t) ==
  /\ tasks[t].pc = "us_save"
  /\ LET p == tasks[t].p
         q == tasks[t].q
         s == tasks[t].newStock IN
       IF ~StockValid(s) THEN
         /\ tasks' = [tasks EXCEPT ![t] =
              Done("updateStock", "ValidationError") @@ [p |-> p, q |-> q]]
         /\ UNCHANGED <<products, sold>>
       ELSE IF ~products[p].exists THEN
         /\ tasks' = [tasks EXCEPT ![t] =
              Done("updateStock", "DocumentNotFound") @@ [p |-> p, q |-> q]]
         /\ UNCHANGED <<products, sold>>
       ELSE
         /\ products' = [products EXCEPT ![p].stock = s]
         /\ sold' = [sold EXCEPT ![p] = @ + q]
         /\ tasks' = [tasks EXCEPT ![t] =
              Done("updateStock", "Ok") @@ [p |-> p, q |-> q]]
  /\ UNCHANGED <<cart, orders, started, supplied, limit, geo>>

\* Product.addStock, up to its save(): the argument check, findById and the
\* in-memory product.stock += quantity.
AddStockFind(t, p, q) ==
  /\ Free(t)
  /\ started' = started + 1
  /\ LET r == FindProduct(p) IN
       tasks' = [tasks EXCEPT ![t] =
         IF q <= 0 THEN Done("addStock", "InvalidArgument") @@ [p |-> p, q |-> q]
         ELSE IF ~r.found THEN Done("addStock", "NotFound") @@ [p |-> p, q |-> q]
         ELSE [pc |-> "as_save", op |-> "addStock", p |-> p, q |-> q,
               newStock |-> r.doc.stock + q]]
  /\ UNCHANGED <<products, cart, orders, sold, supplied, limit, geo>>

\* product.save() in addStock.
AddStockSave(t) ==
  /\ tasks[t].pc = "as_save"
  /\ tasks[t].newStock <= MaxStock
  /\ LET p == tasks[t].p
         q == tasks[t].q IN
       IF ~products[p].exists THEN
         /\ tasks' = [tasks EXCEPT ![t] =
              Done("addStock", "DocumentNotFound") @@ [p |-> p, q |-> q]]
         /\ UNCHANGED <<products, supplied>>
       ELSE
         /\ products' = [products EXCEPT ![p].stock = tasks[t].newStock]
         /\ supplied' = [supplied EXCEPT ![p] = @ + q]
         /\ tasks' = [tasks EXCEPT ![t] =
              Done("addStock", "Ok") @@ [p |-> p, q |-> q]]
  /\ UNCHANGED <<cart, orders, started, sold, limit, geo>>

\* PUT /api/retailer/products/:id, up to its save(): findOne by id and
\* owner, then the in-memory assignments of the fields the body carries
\* (here stock, price and isAvailable).
EditProductFind(t, p, r, s, pr, av) ==
  /\ Free(t)
  /\ started' = started + 1
  /\ tasks' = [tasks EXCEPT ![t] =
       IF ~(products[p].exists /\ ProductRetailer(p) = r)
         THEN Done("editProduct", "NotFound") @@ [p |-> p]
       ELSE [pc |-> "ep_save", op |-> "editProduct", p |-> p,
             loaded |-> products[p], stock |-> s, price |-> pr, avail |-> av]]
  /\ UNCHANGED <<products, cart, orders, sold, supplied, limit, geo>>

\* product.save() in the edit route: validation of the modified paths,
\* then $set of each path whose value differs from the loaded one.
EditProductSave(t) ==
  /\ tasks[t].pc = "ep_save"
  /\ LET p == tasks[t].p
         old == tasks[t].loaded
         cur == products[p] IN
       IF ~StockValid(tasks[t].stock) THEN
         /\ tasks' = [tasks EXCEPT ![t] =
              Done("editProduct", "ValidationError") @@ [p |-> p]]
         /\ UNCHANGED <<products, supplied>>
       ELSE IF ~cur.exists THEN
         /\ tasks' = [tasks EXCEPT ![t] =
              Done("editProduct", "DocumentNotFound") @@ [p |-> p]]
         /\ UNCHANGED <<products, supplied>>
       ELSE
         LET ns == IF tasks[t].stock # old.stock THEN tasks[t].stock ELSE cur.stock
             np == IF tasks[t].price # old.price THEN tasks[t].price ELSE cur.price
             na == IF tasks[t].avail # old.isAvailable
                     THEN tasks[t].avail ELSE cur.isAvailable IN
           /\ products' = [products EXCEPT ![p] =
                [exists |-> TRUE, stock |-> ns, price |-> np, isAvailable |-> na]]
           /\ supplied' = [supplied EXCEPT ![p] =
                IF ns > cur.stock THEN @ + (ns - cur.stock) ELSE @]
           /\ tasks' = [tasks EXCEPT ![t] =
                Done("editProduct", "Ok") @@ [p |-> p]]
  /\ UNCHANGED <<cart, orders, started, sold, limit, geo>>

\* Product.setAvailability(productId, isAvailable), up to its save().
SetAvailabilityFind(t, p, av) ==
  /\ Free(t)
  /\ started' = started + 1
  /\ LET r == FindProduct(p) IN
       tasks' = [tasks EXCEPT ![t] =
         IF ~r.found THEN Done("setAvailability", "NotFound") @@ [p |-> p]
         ELSE [pc |-> "sa_save", op |-> "setAvailability", p |-> p,
               loaded |-> r.doc, avail |-> av]]
  /\ UNCHANGED <<products, cart, orders, sold, supplied, limit, geo>>

\* product.save() in setAvailability: $set of isAvailable if the value
\* differs from the loaded one.
SetAvailabilitySave(t) ==
  /\ tasks[t].pc = "sa_save"
  /\ LET p == tasks[t].p IN
       IF ~products[p].exists THEN
         /\ tasks' = [tasks EXCEPT ![t] =
              Done("setAvailability", "DocumentNotFound") @@ [p |-> p]]
         /\ UNCHANGED products
       ELSE
         /\ products' = [products EXCEPT ![p].isAvailable =
              IF tasks[t].avail # tasks[t].loaded.isAvailable
                THEN tasks[t].avail ELSE @]
         /\ tasks' = [tasks EXCEPT ![t] = Done("setAvailability", "Ok") @@ [p |-> p]]
  /\ UNCHANGED <<cart, orders, started, sold, supplied, limit, geo>>

\* The products collection entry after product.remove().
\* (RemovedZeroesStock: a removal that also writes the stock.)
RemovedZeroesStock(doc) == [doc EXCEPT !.exists = FALSE, !.stock = 0]
Removed(doc) == [doc EXCEPT !.exists = FALSE]

\* =================================================================== cart

\* No cart document yet for the customer (carts are created lazily).
NoCart == [exists |-> FALSE, docs |-> 0, items |-> <<>>, retailer |-> "none",
           discount |-> 0, couponCode |-> "none", v |-> 0]

\* A cart line as addItem pushes it: product, quantity, the price and the
\* retailer captured from the product.
Line(p, q, price) ==
  [product |-> p, quantity |-> q, price |-> price, retailerId |-> ProductRetailer(p)]

\* items.findIndex(item => item.product == productId): 0 stands for -1.
RECURSIVE FindIndexFrom(_, _, _)
FindIndexFrom(items, p, i) ==
  IF i > Len(items) THEN 0
  ELSE IF items[i].product = p THEN i
  ELSE FindIndexFrom(items, p, i + 1)

FindIndex(items, p) == FindIndexFrom(items, p, 1)

\* items.filter(item => item.product != productId)
RemoveProduct(items, p) == SelectSeq(items, LAMBDA l : l.product # p)

\* The retailer check of CartSchema.pre('save'): every line has the first
\* line's retailerId.  (AllFromFirstOnly: the hook comparing the first
\* line with itself only.)
AllFromFirstOnly(items) == TRUE
AllFromSameRetailer(items) ==
  \A i \in 1..Len(items) : items[i].retailerId = items[1].retailerId

\* CartSchema.pre('save') on the in-memory document: the error, or the
\* document with retailer set to the lines' retailer.
PreSave(doc) ==
  IF Len(doc.items) = 0 THEN [ok |-> TRUE, doc |-> doc]
  ELSE IF ~AllFromSameRetailer(doc.items) THEN [ok |-> FALSE, doc |-> doc]
  ELSE [ok |-> TRUE, doc |-> [doc EXCEPT !.retailer = doc.items[1].retailerId]]

\* new Cart({customer, items: []}), not saved yet.
NewCart ==
  [isNew |-> TRUE, items |-> <<>>, retailer |-> "none",
   discount |-> 0, couponCode |-> "none", v |-> 0, loadedRetailer |-> "none"]

\* The document a handler holds after Cart.findOne / findById, or after
\* new Cart({customer, items: []}) when there is none.
LoadCart ==
  IF cart.exists
    THEN [isNew |-> FALSE, items |-> cart.items, retailer |-> cart.retailer,
          discount |-> cart.discount, couponCode |-> cart.couponCode, v |-> cart.v,
          loadedRetailer |-> cart.retailer]
    ELSE NewCart

\* What save() sends for the items array.
PushDelta(line) == [kind |-> "push", line |-> line]
SetElemDelta(i, q, price) == [kind |-> "setElem", i |-> i, quantity |-> q, price |-> price]
SetItemsDelta(items) == [kind |-> "setItems", items |-> items]

\* The items array after the write of a delta to the stored array.
PushWrite(stored, doc, delta) == Append(stored, delta.line)

ApplyDelta(stored, doc, delta) ==
  CASE delta.kind = "push" -> PushWrite(stored, doc, delta)
    [] delta.kind = "setElem" ->
         [stored EXCEPT ![delta.i].quantity = delta.quantity,
                        ![delta.i].price = delta.price]
    [] delta.kind = "setItems" -> delta.items
    [] OTHER -> stored

\* Whether the update's filter carries the loaded __v (positional $set and
\* whole-array $set do, $push does not), and whether it increments __v.
VersionWhere(delta) == delta.kind \in {"setElem", "setItems"}
VersionInc(delta) == delta.kind \in {"push", "setItems"}

\* clearCart's in-memory assignments: items = [], discount = 0,
\* couponCode = null.  (ClearedItemsOnly: the items assignment alone.)
ClearedItemsOnly(doc) == [doc EXCEPT !.items = <<>>]
ClearedCart(doc) ==
  [doc EXCEPT !.items = <<>>, !.discount = 0, !.couponCode = "none"]

\* The unique index on Cart.customer: whether the customer already has a
\* cart document.  (CustomerNeverTaken: the collection without the index.)
CustomerNeverTaken == FALSE
CustomerTaken == cart.exists

\* cart.save(): the pre('save') hook, then the insert of a new document
\* (the customer index is unique) or the update of the modified paths.
\* clear tells that discount and couponCode are among the modified paths.
\* Returns the outcome and the stored cart afterwards.
SaveCart(doc0, delta, clear) ==
  LET h == PreSave(doc0)
      doc == h.doc IN
    IF ~h.ok THEN [res |-> "CrossRetailerConflict", cart |-> cart]
    ELSE IF doc.isNew THEN
      IF CustomerTaken THEN [res |-> "DuplicateKey", cart |-> cart]
      ELSE [res |-> "Ok",
            cart |-> [exists |-> TRUE, docs |-> cart.docs + 1,
                      items |-> doc.items, retailer |-> doc.retailer,
                      discount |-> doc.discount, couponCode |-> doc.couponCode,
                      v |-> 0]]
    ELSE IF VersionWhere(delta) /\ cart.v # doc.v THEN
      [res |-> "VersionError", cart |-> cart]
    ELSE [res |-> "Ok",
          cart |-> [exists |-> TRUE, docs |-> cart.docs,
                    items |-> ApplyDelta(cart.items, doc, delta),
                    retailer |-> IF doc.retailer # doc.loadedRetailer
                                   THEN doc.retailer ELSE cart.retailer,
                    discount |-> IF clear THEN doc.discount ELSE cart.discount,
                    couponCode |-> IF clear THEN doc.couponCode ELSE cart.couponCode,
                    v |-> IF VersionInc(delta) THEN cart.v + 1 ELSE cart.v]]

\* items[existingItemIndex].quantity += quantity.  (MergeOverwrites: the
\* assignment without the addition.)
MergeOverwrites(q1, q2) == q2
MergeQuantity(q1, q2) == q1 + q2

\* product.isAvailable && product.stock >= quantity
OrderableIgnoresStock(doc, q) == doc.isAvailable
Orderable(doc, q) == doc.isAvailable /\ doc.stock >= q

\* POST /api/customer/cart/add, first await: Product.findById and the
\* route's own 404 / 400 answers.
AddRouteFindProduct(t, p, q) ==
  /\ Free(t)
  /\ started' = started + 1
  /\ LET r == FindProduct(p) IN
       tasks' = [tasks EXCEPT ![t] =
         IF ~r.found
           THEN Done("addItem", "NotFound") @@ [p |-> p, q |-> q, seen |-> cart.items]
         ELSE IF ~Orderable(r.doc, q)
           THEN Done("addItem", "Unavailable") @@
                  [p |-> p, q |-> q, seen |-> cart.items,
                   available |-> r.doc.stock, isAvailable |-> r.doc.isAvailable]
         ELSE [pc |-> "add_findCart", op |-> "addItem", p |-> p, q |-> q]]
  /\ UNCHANGED <<products, cart, orders, sold, supplied, limit, geo>>

\* Second await: Cart.findOne({customer}), or a new in-memory Cart.
AddRouteFindCart(t) ==
  /\ tasks[t].pc = "add_findCart"
  /\ tasks' = [tasks EXCEPT ![t] =
       [pc |-> "add_item", op |-> "addItem", p |-> @.p, q |-> @.q,
        doc |-> LoadCart, seen |-> LoadCart.items]]
  /\ UNCHANGED <<products, cart, orders, started, sold, supplied, limit, geo>>

\* cart.addItem up to its save(): Product.findById, the two throws, then
\* the in-memory merge into an existing line or push of a new one.
AddItemFind(t) ==
  /\ tasks[t].pc = "add_item"
  /\ LET p == tasks[t].p
         q == tasks[t].q
         doc == tasks[t].doc
         r == FindProduct(p)
         i == FindIndex(doc.items, p) IN
       tasks' = [tasks EXCEPT ![t] =
         IF ~r.found
           THEN Done("addItem", "NotFound") @@ [p |-> p, q |-> q, seen |-> @.seen]
         ELSE IF ~Orderable(r.doc, q)
           THEN Done("addItem", "Unavailable") @@
                  [p |-> p, q |-> q, seen |-> @.seen,
                   available |-> r.doc.stock, isAvailable |-> r.doc.isAvailable]
         ELSE IF i > 0 THEN
           [pc |-> "add_save", op |-> "addItem", p |-> p, q |-> q,
            seen |-> @.seen, stock |-> r.doc.stock,
            doc |-> [doc EXCEPT !.items[i].quantity = MergeQuantity(@, q),
                                !.items[i].price = r.doc.price],
            delta |-> SetElemDelta(i, MergeQuantity(doc.items[i].quantity, q),
                                   r.doc.price)]
         ELSE
           [pc |-> "add_save", op |-> "addItem", p |-> p, q |-> q,
            seen |-> @.seen, stock |-> r.doc.stock,
            doc |-> [doc EXCEPT !.items = Append(@, Line(p, q, r.doc.price)),
                                !.retailer = IF @ = "none"
                                               THEN ProductRetailer(p) ELSE @],
            delta |-> PushDelta(Line(p, q, r.doc.price))]]
  /\ UNCHANGED <<products, cart, orders, started, sold, supplied, limit, geo>>

\* this.save() at the end of addItem.
AddItemSave(t) ==
  /\ tasks[t].pc = "add_save"
  /\ LET s == SaveCart(tasks[t].doc, tasks[t].delta, FALSE) IN
       /\ cart' = s.cart
       /\ tasks' = [tasks EXCEPT ![t] =
            Done("addItem", s.res) @@
              [p |-> @.p, q |-> @.q, seen |-> @.seen]]
  /\ UNCHANGED <<products, orders, started, sold, supplied, limit, geo>>

\* DELETE /api/customer/cart/remove/:productId up to removeItem's save():
\* Cart.findOne, the two 404 answers, then items = items.filter(...).
RemoveRouteFindCart(t, p) ==
  /\ Free(t)
  /\ started' = started + 1
  /\ LET doc == LoadCart IN
       tasks' = [tasks EXCEPT ![t] =
         IF doc.isNew THEN Done("removeItem", "CartNotFound") @@ [p |-> p]
         ELSE IF FindIndex(doc.items, p) = 0
           THEN Done("removeItem", "ItemNotFound") @@ [p |-> p]
         ELSE [pc |-> "rm_save", op |-> "removeItem", p |-> p,
               doc |-> [doc EXCEPT !.items = RemoveProduct(@, p)],
               delta |-> SetItemsDelta(RemoveProduct(doc.items, p))]]
  /\ UNCHANGED <<products, cart, orders, sold, supplied, limit, geo>>

\* this.save() at the end of removeItem (called by the remove route or by
\* updateItemQuantity).
RemoveItemSave(t) ==
  /\ tasks[t].pc = "rm_save"
  /\ LET s == SaveCart(tasks[t].doc, tasks[t].delta, FALSE) IN
       /\ cart' = s.cart
       /\ tasks' = [tasks EXCEPT ![t] =
            Done(@.op, s.res) @@ [f \in DOMAIN @ \cap {"p", "q"} |-> @[f]]]
  /\ UNCHANGED <<products, orders, started, sold, supplied, limit, geo>>

\* The first test of updateItemQuantity: quantity <= 0 is a removal.
\* (UpdateQtyRemovesNever: updateItemQuantity without that test.)
UpdateQtyRemovesNever(q) == FALSE
UpdateQtyRemoves(q) == q <= 0

\* cart.updateItemQuantity(productId, quantity) on the cart the caller
\* loaded, up to its first await: for quantity <= 0 the filter of
\* removeItem, whose save() comes next.
UpdateQtyLoad(t, p, q) ==
  /\ Free(t)
  /\ started' = started + 1
  /\ cart.exists
  /\ LET doc == LoadCart IN
       tasks' = [tasks EXCEPT ![t] =
         IF UpdateQtyRemoves(q) THEN
           [pc |-> "rm_save", op |-> "updateItemQuantity", p |-> p, q |-> q,
            seen |-> doc.items,
            doc |-> [doc EXCEPT !.items = RemoveProduct(@, p)],
            delta |-> SetItemsDelta(RemoveProduct(doc.items, p))]
         ELSE [pc |-> "uq_find", op |-> "updateItemQuantity", p |-> p, q |-> q,
               seen |-> doc.items, doc |-> doc]]
  /\ UNCHANGED <<products, cart, orders, sold, supplied, limit, geo>>

\* updateItemQuantity from Product.findById up to its save(): the three
\* throws, then the in-memory assignment of quantity and price.
UpdateQtyFind(t) ==
  /\ tasks[t].pc = "uq_find"
  /\ LET p == tasks[t].p
         q == tasks[t].q
         doc == tasks[t].doc
         r == FindProduct(p)
         i == FindIndex(doc.items, p)
         rest == [p |-> p, q |-> q] IN
       tasks' = [tasks EXCEPT ![t] =
         IF ~r.found THEN Done("updateItemQuantity", "NotFound") @@ rest
         ELSE IF ~Orderable(r.doc, q)
           THEN Done("updateItemQuantity", "Unavailable") @@ rest
         ELSE IF i = 0 THEN Done("updateItemQuantity", "ItemNotFound") @@ rest
         ELSE [@ EXCEPT !.pc = "uq_save",
                        !.doc = [doc EXCEPT !.items[i].quantity = q,
                                            !.items[i].price = r.doc.price]] @@
                [delta |-> SetElemDelta(i, q, r.doc.price), stock |-> r.doc.stock]]
  /\ UNCHANGED <<products, cart, orders, started, sold, supplied, limit, geo>>

\* this.save() at the end of updateItemQuantity.
UpdateQtySave(t) ==
  /\ tasks[t].pc = "uq_save"
  /\ LET s == SaveCart(tasks[t].doc, tasks[t].delta, FALSE) IN
       /\ cart' = s.cart
       /\ tasks' = [tasks EXCEPT ![t] =
            Done("updateItemQuantity", s.res) @@ [p |-> @.p, q |-> @.q]]
  /\ UNCHANGED <<products, orders, started, sold, supplied, limit, geo>>

\* GET /api/customer/cart up to its Cart.create: Cart.findOne answers
\* with the cart if there is one.
GetCartFind(t) ==
  /\ Free(t)
  /\ started' = started + 1
  /\ tasks' = [tasks EXCEPT ![t] =
       IF cart.exists THEN Done("getCart", "Ok")
       ELSE [pc |-> "gc_create", op |-> "getCart"]]
  /\ UNCHANGED <<products, cart, orders, sold, supplied, limit, geo>>

\* Cart.create({customer, items: []}) of GET /cart; an error goes to the
\* route's catch.
GetCartCreate(t) ==
  /\ tasks[t].pc = "gc_create"
  /\ LET s == SaveCart(NewCart, SetItemsDelta(<<>>), FALSE) IN
       /\ cart' = s.cart
       /\ tasks' = [tasks EXCEPT ![t] = Done("getCart", s.res)]
  /\ UNCHANGED <<products, orders, started, sold, supplied, limit, geo>>

\* cart.clearCart() on the cart the caller loaded, up to its save().
ClearCartLoad(t) ==
  /\ Free(t)
  /\ started' = started + 1
  /\ cart.exists
  /\ tasks' = [tasks EXCEPT ![t] =
       [pc |-> "cc_save", op |-> "clearCart", doc |-> ClearedCart(LoadCart)]]
  /\ UNCHANGED <<products, cart, orders, sold, supplied, limit, geo>>

\* this.save() at the end of clearCart.
ClearCartSave(t) ==
  /\ tasks[t].pc = "cc_save"
  /\ LET s == SaveCart(tasks[t].doc, SetItemsDelta(<<>>), TRUE) IN
       /\ cart' = s.cart
       /\ tasks' = [tasks EXCEPT ![t] = Done("clearCart", s.res)]
  /\ UNCHANGED <<products, orders, started, sold, supplied, limit, geo>>

\* ================================================================= orders

Statuses == {"pending", "confirmed", "processing", "out_for_delivery",
             "delivered", "cancelled"}

\* validStatuses of PUT /api/retailer/orders/:id/status.
\* (RouteStatusesAny: the route accepting every status of the schema.)
RouteStatusesAny == Statuses
RouteStatuses == {"confirmed", "processing", "out_for_delivery", "delivered"}

\* CartSchema.virtual('subtotal'): the sum of price * quantity over the lines.
RECURSIVE SumLines(_, _)
SumLines(items, i) ==
  IF i > Len(items) THEN 0
  ELSE items[i].price * items[i].quantity + SumLines(items, i + 1)

Subtotal(items) == SumLines(items, 1)

\* parseFloat((subtotal * 0.1).toFixed(2)) on an amount in cents: a tenth,
\* rounded to the nearest cent.  (TaxTruncates: the tenth cut, not rounded.)
TaxTruncates(subtotal) == subtotal \div 10
TaxOf(subtotal) == (subtotal + 5) \div 10

\* CartSchema.virtual('tax'): Math.round((subtotal - discount) * 0.1 * 100)
\* / 100 with the default rate, on amounts in cents.
CartTax(items, discount) == (Subtotal(items) - discount + 5) \div 10

\* CartSchema.virtual('deliveryFee'): the default 5.00.
CartDeliveryFee == 500

\* CartSchema.virtual('total'): discounted subtotal + tax + delivery fee.
CartTotal(items, discount) ==
  (Subtotal(items) - discount) + CartTax(items, discount) + CartDeliveryFee

\* total = subtotal + tax + deliveryFee - cart.discount.
\* (OrderTotalNoDiscount: the sum without the discount.)
OrderTotalNoDiscount(subtotal, tax, fee, discount) == subtotal + tax + fee
OrderTotal(subtotal, tax, fee, discount) == subtotal + tax + fee - discount

\* fee: 5.00 passed by POST /api/customer/order.
DeliveryFee == 500

\* A status history entry.
Entry(status, note) == [status |-> status, note |-> note]

\* price of an order line in cart.items.map: the price stored on the cart
\* line.  (OrderLinePriceLive: the product's present price instead.)
OrderLinePriceLive(line) == products[line.product].price
OrderLinePrice(line) == line.price

\* payment.status of the created order, by payment method.
\* (PaymentStatusAlwaysPending: every payment starting as pending.)
PaymentStatusAlwaysPending(method) == "pending"
PaymentStatusFor(method) ==
  IF method = "cash_on_delivery" THEN "pending" ELSE "completed"

\* The document Order.create inserts in createFromCart, after
\* OrderSchema.pre('save') gave it its number and its first history entry.
MakeOrder(doc, method, number) ==
  LET subtotal == Subtotal(doc.items)
      tax == TaxOf(subtotal)
      total == OrderTotal(subtotal, tax, DeliveryFee, doc.discount) IN
    [orderNumber |-> number,
     items |-> [i \in 1..Len(doc.items) |->
                  [product |-> doc.items[i].product,
                   quantity |-> doc.items[i].quantity,
                   price |-> OrderLinePrice(doc.items[i]),
                   retailer |-> ProductRetailer(doc.items[i].product)]],
     subtotal |-> subtotal,
     discount |-> doc.discount,
     tax |-> tax,
     deliveryFee |-> DeliveryFee,
     total |-> total,
     couponCode |-> doc.couponCode,
     status |-> "pending",
     statusHistory |-> <<Entry("pending", "Order created")>>,
     payment |-> [method |-> method, amount |-> total,
                  status |-> PaymentStatusFor(method)],
     expectedDeliveryDate |-> "in2days",
     actualDeliveryDate |-> "none",
     cancelReason |-> "none"]

\* The in-memory changes shared by Order.updateStatus and the retailer
\* status route: status, one pushed history entry, the delivery dates.
\* Returned as the update save() sends; assigning the status the document
\* already has leaves the path unmodified (setStatus).
StatusUpdate(loaded, status, note) ==
  [status |-> status,
   setStatus |-> status # loaded.status,
   push |-> Entry(status, note),
   actual |-> status = "delivered",
   expected |-> status = "confirmed" /\ loaded.expectedDeliveryDate = "none",
   cancelReason |-> "keep"]

\* order.save(): $set of the modified scalar paths and $push of the new
\* history entry onto the stored array.  (WriteOrderReprices: a save that
\* also rewrites the total.)
WriteOrderReprices(stored, u) ==
  [stored EXCEPT !.status = IF u.setStatus THEN u.status ELSE @,
                 !.statusHistory = Append(@, u.push),
                 !.total = stored.subtotal]
WriteOrder(stored, u) ==
  [stored EXCEPT
     !.status = IF u.setStatus THEN u.status ELSE @,
     !.statusHistory = Append(@, u.push),
     !.actualDeliveryDate = IF u.actual THEN "now" ELSE @,
     !.expectedDeliveryDate = IF u.expected THEN "in3days" ELSE @,
     !.cancelReason = IF u.cancelReason = "keep" THEN @ ELSE u.cancelReason]

\* The guard of the retailer status route on the loaded order.
RouteRejects(status) == status = "cancelled"

\* The guard of cancelOrder on the loaded order.
CancelRejects(status) == status = "delivered"

\* hasRetailerItems of the status route: some line of the order belongs to
\* the retailer r.  (HasRetailerItemsAny: the route without that check.)
HasRetailerItemsAny(order, r) == TRUE
HasRetailerItems(order, r) ==
  \E k \in 1..Len(order.items) : order.items[k].retailer = r

\* PUT /api/retailer/orders/:id/status up to its save(): the status value
\* check, Order.findById, the retailer's-items check, the cancelled check,
\* then the in-memory update.
RouteStatusFind(t, r, i, status) ==
  /\ Free(t)
  /\ started' = started + 1
  /\ tasks' = [tasks EXCEPT ![t] =
       IF status \notin RouteStatuses
         THEN Done("routeStatus", "InvalidStatus") @@ [i |-> i, r |-> r, status |-> status]
       ELSE IF i > Len(orders)
         THEN Done("routeStatus", "NotFound") @@ [i |-> i, r |-> r, status |-> status]
       ELSE IF ~HasRetailerItems(orders[i], r)
         THEN Done("routeStatus", "Forbidden") @@
                [i |-> i, r |-> r, status |-> status, seen |-> orders[i].status]
       ELSE IF RouteRejects(orders[i].status)
         THEN Done("routeStatus", "InvalidTransition") @@
                [i |-> i, r |-> r, status |-> status, seen |-> orders[i].status]
       ELSE [pc |-> "ord_save", op |-> "routeStatus", i |-> i, r |-> r,
             status |-> status,
             seen |-> orders[i].status,
             update |-> StatusUpdate(orders[i], status, "by retailer")]]
  /\ UNCHANGED <<products, cart, orders, sold, supplied, limit, geo>>

\* Order.updateStatus(status, note) on an order the caller loaded, up to
\* its save(): no check of the current status.
UpdateStatusFind(t, i, status) ==
  /\ Free(t)
  /\ started' = started + 1
  /\ i <= Len(orders)
  /\ tasks' = [tasks EXCEPT ![t] =
       [pc |-> "ord_save", op |-> "updateStatus", i |-> i, status |-> status,
        seen |-> orders[i].status,
        update |-> StatusUpdate(orders[i], status, "note")]]
  /\ UNCHANGED <<products, cart, orders, sold, supplied, limit, geo>>

\* The in-memory changes of cancelOrder(reason): status, cancelReason and
\* one pushed history entry, as the update save() sends.
CancelUpdate(loaded) ==
  [status |-> "cancelled",
   setStatus |-> loaded.status # "cancelled",
   push |-> Entry("cancelled", "reason"),
   actual |-> FALSE, expected |-> FALSE,
   cancelReason |-> "reason"]

\* Order.cancelOrder(reason) on an order the caller loaded, up to its save().
CancelOrderFind(t, i) ==
  /\ Free(t)
  /\ started' = started + 1
  /\ i <= Len(orders)
  /\ tasks' = [tasks EXCEPT ![t] =
       IF CancelRejects(orders[i].status)
         THEN Done("cancelOrder", "InvalidTransition") @@
                [i |-> i, status |-> "cancelled", seen |-> orders[i].status]
       ELSE [pc |-> "ord_save", op |-> "cancelOrder", i |-> i,
             status |-> "cancelled", seen |-> orders[i].status,
             update |-> CancelUpdate(orders[i])]]
  /\ UNCHANGED <<products, cart, orders, sold, supplied, limit, geo>>

\* this.save() / order.save() of the three operations above.  The status
\* enum of the schema is validated first.
OrderSave(t) ==
  /\ tasks[t].pc = "ord_save"
  /\ LET i == tasks[t].i
         u == tasks[t].update
         rest == [i |-> i, status |-> tasks[t].status, seen |-> tasks[t].seen] IN
       IF u.status \notin Statuses THEN
         /\ tasks' = [tasks EXCEPT ![t] = Done(@.op, "ValidationError") @@ rest]
         /\ UNCHANGED orders
       ELSE
         /\ orders' = [orders EXCEPT ![i] = WriteOrder(@, u)]
         /\ tasks' = [tasks EXCEPT ![t] = Done(@.op, "Ok") @@ rest]
  /\ UNCHANGED <<products, cart, started, sold, supplied, limit, geo>>

\* PaymentSchema.status enum.
PaymentStatuses == {"pending", "completed", "failed", "refunded"}

\* Order.updatePayment(status) on an order the caller loaded, up to its
\* save(): payment.status (and paidAt, transactionId) assigned in memory.
UpdatePaymentFind(t, i, status) ==
  /\ Free(t)
  /\ started' = started + 1
  /\ i <= Len(orders)
  /\ tasks' = [tasks EXCEPT ![t] =
       [pc |-> "pay_save", op |-> "updatePayment", i |-> i, status |-> status]]
  /\ UNCHANGED <<products, cart, orders, sold, supplied, limit, geo>>

\* this.save() of updatePayment: the enum is validated, then
\* payment.status is $set.
PaymentSave(t) ==
  /\ tasks[t].pc = "pay_save"
  /\ LET i == tasks[t].i IN
       IF tasks[t].status \notin PaymentStatuses THEN
         /\ tasks' = [tasks EXCEPT ![t] =
              Done("updatePayment", "ValidationError") @@ [i |-> i]]
         /\ UNCHANGED orders
       ELSE
         /\ orders' = [orders EXCEPT ![i].payment.status = tasks[t].status]
         /\ tasks' = [tasks EXCEPT ![t] = Done("updatePayment", "Ok") @@ [i |-> i]]
  /\ UNCHANGED <<products, cart, started, sold, supplied, limit, geo>>

\* DELETE /api/retailer/products/:id, up to product.remove(): findOne by
\* id and owner, the 404.
DeleteProductFind(t, p, r) ==
  /\ Free(t)
  /\ started' = started + 1
  /\ tasks' = [tasks EXCEPT ![t] =
       IF ~(products[p].exists /\ ProductRetailer(p) = r)
         THEN Done("deleteProduct", "NotFound") @@ [p |-> p]
       ELSE [pc |-> "dp_remove", op |-> "deleteProduct", p |-> p]]
  /\ UNCHANGED <<products, cart, orders, sold, supplied, limit, geo>>

\* product.remove(): the document leaves the collection.
DeleteProductRemove(t) ==
  /\ tasks[t].pc = "dp_remove"
  /\ products' = [products EXCEPT ![tasks[t].p] = Removed(@)]
  /\ tasks' = [tasks EXCEPT ![t] = Done("deleteProduct", "Ok") @@ [p |-> @.p]]
  /\ UNCHANGED <<cart, orders, started, sold, supplied, limit, geo>>

\* ================================================================= commit

\* The random part of the order number pre('save') generates.
OrderNumbers == 1..MaxOrderNumbers

\* One pass of the loop of verifyAvailability: the entry pushed for a line
\* whose product is missing, unavailable or short of stock, if any.
VerifyLine(line) ==
  LET r == FindProduct(line.product) IN
    IF ~r.found THEN
      <<[productId |-> line.product, requested |-> line.quantity,
         available |-> 0, isAvailable |-> FALSE]>>
    ELSE IF ~Orderable(r.doc, line.quantity) THEN
      <<[productId |-> line.product, requested |-> line.quantity,
         available |-> r.doc.stock, isAvailable |-> r.doc.isAvailable]>>
    ELSE <<>>

\* A finished POST /api/customer/order: the answer (res, with the
\* unavailableItems payload of the 400 answer), the error thrown inside
\* createFromCart if any, and what the attempt did: the order it inserted
\* (index in orders, 0 for none), the lines whose stock it decremented and
\* whether it cleared the cart.  found holds the lines the last
\* verifyAvailability pass reported.
CommitDone(res, err, payload, found, order, decs, cleared) ==
  [pc |-> "done", op |-> "commit", res |-> res, err |-> err, payload |-> payload,
   found |-> found, order |-> order, decs |-> decs, cleared |-> cleared]

\* POST /api/customer/order, up to its verifyAvailability: Cart.findOne and
\* the 400 for a missing or empty cart.
OrderRouteFindCart(t, method) ==
  /\ Free(t)
  /\ started' = started + 1
  /\ LET doc == LoadCart IN
       tasks' = [tasks EXCEPT ![t] =
         IF doc.isNew \/ Len(doc.items) = 0
           THEN CommitDone("EmptyCart", "none", <<>>, <<>>, 0, 0, FALSE)
         ELSE [pc |-> "ord_verify", op |-> "commit", method |-> method,
               doc |-> doc, i |-> 1, found |-> <<>>]]
  /\ UNCHANGED <<products, cart, orders, sold, supplied, limit, geo>>

\* The route's cart.verifyAvailability(), one Product.findById per step; at
\* the end of the loop the 400 with the list, or on to createFromCart (the
\* Customer.findById in between touches nothing modelled).
OrderRouteVerify(t) ==
  /\ tasks[t].pc = "ord_verify"
  /\ LET doc == tasks[t].doc
         i == tasks[t].i
         found == tasks[t].found \o VerifyLine(doc.items[i]) IN
       tasks' = [tasks EXCEPT ![t] =
         IF i < Len(doc.items) THEN [@ EXCEPT !.i = i + 1, !.found = found]
         ELSE IF Len(found) > 0
           THEN CommitDone("ItemsUnavailable", "none", found, found, 0, 0, FALSE)
         ELSE [pc |-> "cfc_find", op |-> "commit", method |-> @.method]]
  /\ UNCHANGED <<products, cart, orders, started, sold, supplied, limit, geo>>

\* Order.createFromCart, up to its verifyAvailability: Cart.findById and
\* the throws for a missing or empty cart.
CreateFindCart(t) ==
  /\ tasks[t].pc = "cfc_find"
  /\ LET doc == LoadCart IN
       tasks' = [tasks EXCEPT ![t] =
         IF doc.isNew
           THEN CommitDone("ServerError", "Cart not found", <<>>, <<>>, 0, 0, FALSE)
         ELSE IF Len(doc.items) = 0
           THEN CommitDone("ServerError", "Cannot create order with empty cart",
                           <<>>, <<>>, 0, 0, FALSE)
         ELSE [pc |-> "cfc_verify", op |-> "commit", method |-> @.method,
               doc |-> doc, i |-> 1, found |-> <<>>]]
  /\ UNCHANGED <<products, cart, orders, started, sold, supplied, limit, geo>>

\* createFromCart's own cart.verifyAvailability(), one Product.findById
\* per step; an invalid result is thrown as a plain Error, without the list.
CreateVerify(t) ==
  /\ tasks[t].pc = "cfc_verify"
  /\ LET doc == tasks[t].doc
         i == tasks[t].i
         found == tasks[t].found \o VerifyLine(doc.items[i]) IN
       tasks' = [tasks EXCEPT ![t] =
         IF i < Len(doc.items) THEN [@ EXCEPT !.i = i + 1, !.found = found]
         ELSE IF Len(found) > 0
           THEN CommitDone("ServerError", "Some items are unavailable or out of stock",
                           <<>>, found, 0, 0, FALSE)
         ELSE [pc |-> "cfc_insert", op |-> "commit", method |-> @.method,
               doc |-> doc]]
  /\ UNCHANGED <<products, cart, orders, started, sold, supplied, limit, geo>>

\* The unique index on orderNumber: whether a stored order has number n.
\* (NumberNeverTaken: the collection without the index.)
NumberNeverTaken(n) == FALSE
NumberTaken(n) == \E k \in 1..Len(orders) : orders[k].orderNumber = n

\* this.create({...}): pre('save') draws the order number, the insert is
\* rejected by the unique index if an order already has it.
CreateInsert(t, n) ==
  /\ tasks[t].pc = "cfc_insert"
  /\ IF NumberTaken(n) THEN
       /\ tasks' = [tasks EXCEPT ![t] =
            CommitDone("ServerError", "DuplicateKey", <<>>, <<>>, 0, 0, FALSE)]
       /\ UNCHANGED orders
     ELSE
       /\ orders' = Append(orders, MakeOrder(tasks[t].doc, tasks[t].method, n))
       /\ tasks' = [tasks EXCEPT ![t] =
            [pc |-> "cfc_stock", op |-> "commit", doc |-> @.doc, i |-> 1,
             order |-> Len(orders) + 1]]
  /\ UNCHANGED <<products, cart, started, sold, supplied, limit, geo>>

\* An error thrown by updateStock inside the stock loop: nothing catches it
\* before the route, which answers 500; task is the commit at line task.i.
\* (StockFailureSkipsLine: the loop swallowing the error and going on.)
StockFailureSkipsLine(task, err) ==
  [pc |-> IF task.i < Len(task.doc.items) THEN "cfc_stock" ELSE "cfc_clear",
   op |-> "commit", doc |-> task.doc, i |-> task.i + 1, order |-> task.order]
StockFailure(task, err) ==
  CommitDone("ServerError", err, <<>>, <<>>, task.order, task.i - 1, FALSE)

\* The stock loop of createFromCart, Product.updateStock(line) up to its
\* save(): findById, the two throws, the in-memory decrement.
CreateStockFind(t) ==
  /\ tasks[t].pc = "cfc_stock"
  /\ LET line == tasks[t].doc.items[tasks[t].i]
         r == FindProduct(line.product) IN
       tasks' = [tasks EXCEPT ![t] =
         IF ~r.found THEN StockFailure(@, "Product not found")
         ELSE IF UpdateStockRejects(r.doc.stock, line.quantity)
           THEN StockFailure(@, "Insufficient stock")
         ELSE [@ EXCEPT !.pc = "cfc_stock_save"] @@
                [newStock |-> Decremented(r.doc.stock, line.quantity)]]
  /\ UNCHANGED <<products, cart, orders, started, sold, supplied, limit, geo>>

\* product.save() of that updateStock, then the next line or clearCart.
CreateStockSave(t) ==
  /\ tasks[t].pc = "cfc_stock_save"
  /\ LET doc == tasks[t].doc
         i == tasks[t].i
         line == doc.items[i] IN
       IF ~StockValid(tasks[t].newStock) \/ ~products[line.product].exists THEN
         /\ tasks' = [tasks EXCEPT ![t] = StockFailure(@, "Save failed")]
         /\ UNCHANGED <<products, sold>>
       ELSE
         /\ products' = [products EXCEPT ![line.product].stock = tasks[t].newStock]
         /\ sold' = [sold EXCEPT ![line.product] = @ + line.quantity]
         /\ tasks' = [tasks EXCEPT ![t] =
              [pc |-> IF i < Len(doc.items) THEN "cfc_stock" ELSE "cfc_clear",
               op |-> "commit", doc |-> doc, i |-> i + 1, order |-> @.order]]
  /\ UNCHANGED <<cart, orders, started, supplied, limit, geo>>

\* cart.clearCart(): items = [], discount = 0, couponCode = null, save();
\* then the 201 with the order.
CreateClearCart(t) ==
  /\ tasks[t].pc = "cfc_clear"
  /\ LET doc == tasks[t].doc
         n == Len(doc.items)
         s == SaveCart(ClearedCart(doc), SetItemsDelta(<<>>), TRUE) IN
       /\ cart' = s.cart
       /\ tasks' = [tasks EXCEPT ![t] =
            IF s.res = "Ok"
              THEN CommitDone("Ok", "none", <<>>, <<>>, @.order, n, TRUE)
            ELSE CommitDone("ServerError", s.res, <<>>, <<>>, @.order, n, FALSE)]
  /\ UNCHANGED <<products, orders, started, sold, supplied, limit, geo>>

\* ----------------------------------------------------- cart specification
\* The customer's cart when the requests start: none yet, the empty cart
\* GET /cart creates, or the cart a first add of p1 inserted (p1's price
\* may have been edited since).
InitCarts ==
  { NoCart,
    [NoCart EXCEPT !.exists = TRUE, !.docs = 1],
    [NoCart EXCEPT !.exists = TRUE, !.docs = 1, !.items = <<Line("p1", 1, 199)>>,
                   !.retailer = "rA"] }

InitCart ==
  /\ products \in [Products -> [exists : {TRUE}, stock : {MaxStock},
                                price : {199, 299}, isAvailable : BOOLEAN]]
  /\ \A p \in {"p1", "p2"} : products[p].isAvailable
  /\ \A p \in {"p2", "p3"} : products[p].price = 199
  /\ cart \in InitCarts
  /\ orders = <<>>
  /\ tasks = [t \in Tasks |-> Idle]
  /\ started = 0
  /\ limit = MaxCartRequests
  /\ sold = [p \in Products |-> 0]
  /\ supplied = [p \in Products |-> products[p].stock]
  /\ geo = GeoInit

NextCart ==
  \/ \E t \in Tasks, p \in Products, q \in Qtys : AddRouteFindProduct(t, p, q)
  \/ \E t \in Tasks : AddRouteFindCart(t)
  \/ \E t \in Tasks : AddItemFind(t)
  \/ \E t \in Tasks : AddItemSave(t)
  \/ \E t \in Tasks, p \in Products : RemoveRouteFindCart(t, p)
  \/ \E t \in Tasks : RemoveItemSave(t)
  \/ \E t \in Tasks : GetCartFind(t)
  \/ \E t \in Tasks : GetCartCreate(t)
  \/ \E t \in Tasks : ClearCartLoad(t)
  \/ \E t \in Tasks : ClearCartSave(t)

SpecCart == InitCart /\ [][NextCart]_vars

\* ---------------------------------------------------- order specification
\* An order as a commit of a one-line cart of retailer rA created it, still
\* pending or cancelled by an earlier cancelOrder.
InitOrderCart == [isNew |-> FALSE, items |-> <<Line("p1", 1, 199)>>,
                  retailer |-> "rA", discount |-> 0, couponCode |-> "none", v |-> 0]

InitOrder ==
  /\ products = [p \in Products |->
       [exists |-> TRUE, stock |-> MaxStock, price |-> 199, isAvailable |-> TRUE]]
  /\ cart = [NoCart EXCEPT !.exists = TRUE, !.docs = 1, !.retailer = "rA", !.v = 1]
  /\ \E m \in {"cash_on_delivery", "card"}, c \in BOOLEAN :
       LET order == MakeOrder(InitOrderCart, m, 1) IN
         orders = <<IF c THEN WriteOrder(order, CancelUpdate(order)) ELSE order>>
  /\ tasks = [t \in Tasks |-> Idle]
  /\ started = 0
  /\ limit = MaxOrderRequests
  /\ sold = [p \in Products |-> 0]
  /\ supplied = [p \in Products |-> products[p].stock]
  /\ geo = GeoInit

NextOrder ==
  \/ \E t \in Tasks, r \in Retailers, i \in 1..2,
        s \in RouteStatuses \cup {"pending", "cancelled", "refunded"} :
          RouteStatusFind(t, r, i, s)
  \/ \E t \in Tasks, i \in 1..2, s \in Statuses \cup {"refunded"} :
       UpdateStatusFind(t, i, s)
  \/ \E t \in Tasks, i \in 1..2 : CancelOrderFind(t, i)
  \/ \E t \in Tasks : OrderSave(t)

SpecOrder == InitOrder /\ [][NextOrder]_vars

\* --------------------------------------------------- commit specification
\* The customer's cart at checkout, as earlier adds left it: one line, or
\* two lines of the same retailer (the retailer may have deleted p2 since).
CommitCarts ==
  { [NoCart EXCEPT !.exists = TRUE, !.docs = 1, !.retailer = "rA", !.v = 0,
                   !.items = <<Line("p1", MaxQty, 199)>>],
    [NoCart EXCEPT !.exists = TRUE, !.docs = 1, !.retailer = "rA", !.v = 1,
                   !.items = <<Line("p1", 1, 199), Line("p2", 1, 299)>>] }

InitCommit ==
  /\ products \in [Products -> [exists : BOOLEAN, stock : {1, MaxStock},
                                price : {199, 299}, isAvailable : BOOLEAN]]
  /\ products["p1"].price = 199
  /\ products["p1"].exists
  /\ \E e \in BOOLEAN :
       products["p2"] = [exists |-> e, stock |-> 1, price |-> 299, isAvailable |-> TRUE]
  /\ products["p3"] = [exists |-> TRUE, stock |-> 1, price |-> 199, isAvailable |-> TRUE]
  /\ cart \in CommitCarts
  /\ orders = <<>>
  /\ tasks = [t \in Tasks |-> Idle]
  /\ started = 0
  /\ limit = MaxCommitRequests
  /\ sold = [p \in Products |-> 0]
  /\ supplied = [p \in Products |-> products[p].stock]
  /\ geo = GeoInit

NextCommit ==
  \/ \E t \in Tasks, m \in {"cash_on_delivery", "card"} : OrderRouteFindCart(t, m)
  \/ \E t \in Tasks : OrderRouteVerify(t)
  \/ \E t \in Tasks : CreateFindCart(t)
  \/ \E t \in Tasks : CreateVerify(t)
  \/ \E t \in Tasks, n \in OrderNumbers : CreateInsert(t, n)
  \/ \E t \in Tasks : CreateStockFind(t)
  \/ \E t \in Tasks : CreateStockSave(t)
  \/ \E t \in Tasks : CreateClearCart(t)
  \/ \E t \in Tasks, p \in {"p1", "p2"}, st \in {0, MaxStock} :
       EditProductFind(t, p, "rA", st, products[p].price, TRUE)
  \/ \E t \in Tasks : EditProductSave(t)

Spec == InitCommit /\ [][NextCommit]_vars

\* ---------------------------------------------------- stock specification
\* Every writer of Product.stock, running concurrently: updateStock (also
\* on a product deleted before) and addStock called directly, the retailer's product edit, and the stock
\* loop of concurrently running commits.
InitStock ==
  /\ products \in [Products -> [exists : BOOLEAN, stock : Stocks,
                                price : {199, 299}, isAvailable : {TRUE}]]
  /\ products["p1"].price = 199
  /\ products["p1"].exists
  /\ products["p2"] = [exists |-> TRUE, stock |-> 1, price |-> 299, isAvailable |-> TRUE]
  /\ \E e \in BOOLEAN :
       products["p3"] = [exists |-> e, stock |-> 1, price |-> 199, isAvailable |-> TRUE]
  /\ cart \in CommitCarts
  /\ orders = <<>>
  /\ tasks = [t \in Tasks |-> Idle]
  /\ started = 0
  /\ limit = MaxStockRequests
  /\ sold = [p \in Products |-> 0]
  /\ supplied = [p \in Products |-> products[p].stock]
  /\ geo = GeoInit

NextStock ==
  \/ \E t \in Tasks, q \in Qtys : UpdateStockFind(t, "p1", q)
  \/ \E t \in Tasks : UpdateStockFind(t, "p3", 1)
  \/ \E t \in Tasks : UpdateStockSave(t)
  \/ \E t \in Tasks, q \in 0..1 : AddStockFind(t, "p1", q)
  \/ \E t \in Tasks : AddStockSave(t)
  \/ \E t \in Tasks, s \in {-1, 0, MaxStock} :
       EditProductFind(t, "p1", "rA", s, 199, TRUE)
  \/ \E t \in Tasks : EditProductSave(t)
  \/ \E t \in Tasks : OrderRouteFindCart(t, "card")
  \/ \E t \in Tasks : OrderRouteVerify(t)
  \/ \E t \in Tasks : CreateFindCart(t)
  \/ \E t \in Tasks : CreateVerify(t)
  \/ \E t \in Tasks : CreateInsert(t, 1 + Len(orders))
  \/ \E t \in Tasks : CreateStockFind(t)
  \/ \E t \in Tasks : CreateStockSave(t)
  \/ \E t \in Tasks : CreateClearCart(t)

SpecStock == InitStock /\ [][NextStock]_vars

\* --------------------------------------------------- totals specification
\* cart.discount: an amount resolved before checkout, in cents.
Discounts == {0, 100}

\* The customer's cart at checkout: 2.99 x 2 and 1.99 x 1, or 1.99 x 1,
\* with or without a discount and its coupon.
TotalsCarts ==
  { [NoCart EXCEPT !.exists = TRUE, !.docs = 1, !.retailer = "rA", !.v = Len(its) - 1,
                   !.items = its, !.discount = d,
                   !.couponCode = IF d = 0 THEN "none" ELSE "SAVE"] :
      its \in { <<Line("p2", 2, 299), Line("p1", 1, 199)>>, <<Line("p1", 1, 199)>> },
      d \in Discounts }

InitTotals ==
  /\ products = [p \in Products |->
       [exists |-> TRUE, stock |-> MaxStock,
        price |-> IF p = "p2" THEN 299 ELSE 199, isAvailable |-> TRUE]]
  /\ cart \in TotalsCarts
  /\ orders = <<>>
  /\ tasks = [t \in Tasks |-> Idle]
  /\ started = 0
  /\ limit = MaxTotalsRequests
  /\ sold = [p \in Products |-> 0]
  /\ supplied = [p \in Products |-> products[p].stock]
  /\ geo = GeoInit

\* A checkout followed by, or running with, the operations on orders, the
\* retailer's edits and deletions of the ordered product, and further adds
\* to the cart.
NextTotals ==
  \/ \E t \in Tasks : OrderRouteFindCart(t, "card")
  \/ \E t \in Tasks : OrderRouteVerify(t)
  \/ \E t \in Tasks : CreateFindCart(t)
  \/ \E t \in Tasks : CreateVerify(t)
  \/ \E t \in Tasks : CreateInsert(t, 1 + Len(orders))
  \/ \E t \in Tasks : CreateStockFind(t)
  \/ \E t \in Tasks : CreateStockSave(t)
  \/ \E t \in Tasks : CreateClearCart(t)
  \/ \E t \in Tasks : RouteStatusFind(t, "rA", 1, "delivered")
  \/ \E t \in Tasks : UpdateStatusFind(t, 1, "processing")
  \/ \E t \in Tasks : CancelOrderFind(t, 1)
  \/ \E t \in Tasks : OrderSave(t)
  \/ \E t \in Tasks : UpdatePaymentFind(t, 1, "refunded")
  \/ \E t \in Tasks : PaymentSave(t)
  \/ \E t \in Tasks : EditProductFind(t, "p1", "rA", products["p1"].stock, 249, TRUE)
  \/ \E t \in Tasks : EditProductSave(t)
  \/ \E t \in Tasks : DeleteProductFind(t, "p1", "rA")
  \/ \E t \in Tasks : DeleteProductRemove(t)
  \/ \E t \in Tasks : AddRouteFindProduct(t, "p1", 1)
  \/ \E t \in Tasks : AddRouteFindCart(t)
  \/ \E t \in Tasks : AddItemFind(t)
  \/ \E t \in Tasks : AddItemSave(t)

SpecTotals == InitTotals /\ [][NextTotals]_vars

\* ------------------------------------------------- quantity specification
\* updateItemQuantity on the customer's cart, with a concurrent removal and
\* the retailer editing or deleting the product.
InitQty ==
  /\ products \in [Products -> [exists : {TRUE}, stock : {1, MaxStock},
                                price : {199, 299}, isAvailable : BOOLEAN]]
  /\ products["p2"] = [exists |-> TRUE, stock |-> 1, price |-> 299, isAvailable |-> TRUE]
  /\ products["p3"] = [exists |-> TRUE, stock |-> 1, price |-> 199, isAvailable |-> TRUE]
  /\ cart \in CommitCarts
  /\ orders = <<>>
  /\ tasks = [t \in Tasks |-> Idle]
  /\ started = 0
  /\ limit = MaxQtyRequests
  /\ sold = [p \in Products |-> 0]
  /\ supplied = [p \in Products |-> products[p].stock]
  /\ geo = GeoInit

NextQty ==
  \/ \E t \in Tasks, p \in {"p1", "p3"}, q \in 0..MaxQty : UpdateQtyLoad(t, p, q)
  \/ \E t \in Tasks : UpdateQtyFind(t)
  \/ \E t \in Tasks : UpdateQtySave(t)
  \/ \E t \in Tasks : RemoveRouteFindCart(t, "p1")
  \/ \E t \in Tasks : RemoveItemSave(t)
  \/ \E t \in Tasks, st \in {0, MaxStock}, av \in BOOLEAN :
       EditProductFind(t, "p1", "rA", st, products["p1"].price, av)
  \/ \E t \in Tasks : EditProductSave(t)
  \/ \E t \in Tasks : DeleteProductFind(t, "p1", "rA")
  \/ \E t \in Tasks : DeleteProductRemove(t)

SpecQty == InitQty /\ [][NextQty]_vars

\* ---------------------------------------------------- frame specification
\* Every cart operation and every writer of a product, two at a time.
InitFrame ==
  /\ products = [p \in Products |->
       [exists |-> TRUE, stock |-> IF p = "p1" THEN MaxStock ELSE 1,
        price |-> IF p = "p2" THEN 299 ELSE 199, isAvailable |-> TRUE]]
  /\ cart \in CommitCarts
  /\ orders = <<>>
  /\ tasks = [t \in Tasks |-> Idle]
  /\ started = 0
  /\ limit = MaxFrameRequests
  /\ sold = [p \in Products |-> 0]
  /\ supplied = [p \in Products |-> products[p].stock]
  /\ geo = GeoInit

NextFrame ==
  \/ \E t \in Tasks : AddRouteFindProduct(t, "p1", 1)
  \/ \E t \in Tasks : AddRouteFindCart(t)
  \/ \E t \in Tasks : AddItemFind(t)
  \/ \E t \in Tasks : AddItemSave(t)
  \/ \E t \in Tasks : RemoveRouteFindCart(t, "p1")
  \/ \E t \in Tasks : RemoveItemSave(t)
  \/ \E t \in Tasks, q \in 0..1 : UpdateQtyLoad(t, "p1", q)
  \/ \E t \in Tasks : UpdateQtyFind(t)
  \/ \E t \in Tasks : UpdateQtySave(t)
  \/ \E t \in Tasks : ClearCartLoad(t)
  \/ \E t \in Tasks : ClearCartSave(t)
  \/ \E t \in Tasks : OrderRouteFindCart(t, "card")
  \/ \E t \in Tasks : OrderRouteVerify(t)
  \/ \E t \in Tasks : CreateFindCart(t)
  \/ \E t \in Tasks : CreateVerify(t)
  \/ \E t \in Tasks : CreateInsert(t, 1 + Len(orders))
  \/ \E t \in Tasks : CreateStockFind(t)
  \/ \E t \in Tasks : CreateStockSave(t)
  \/ \E t \in Tasks : CreateClearCart(t)
  \/ \E t \in Tasks : UpdateStockFind(t, "p1", 1)
  \/ \E t \in Tasks : UpdateStockSave(t)
  \/ \E t \in Tasks : AddStockFind(t, "p1", 1)
  \/ \E t \in Tasks : AddStockSave(t)
  \/ \E t \in Tasks : EditProductFind(t, "p1", "rA", 0, 199, TRUE)
  \/ \E t \in Tasks : EditProductSave(t)
  \/ \E t \in Tasks : SetAvailabilityFind(t, "p1", FALSE)
  \/ \E t \in Tasks : SetAvailabilitySave(t)
  \/ \E t \in Tasks : DeleteProductFind(t, "p1", "rA")
  \/ \E t \in Tasks : DeleteProductRemove(t)

SpecFrame == InitFrame /\ [][NextFrame]_vars

\* ------------------------------------------------- geocoder specification
\* Calls of geocodeAddress and reverseGeocode, two at a time, while the
\* clock advances; the module is fresh or has served one call.
InitGeo ==
  /\ products = [p \in Products |->
       [exists |-> TRUE, stock |-> MaxStock, price |-> 199, isAvailable |-> TRUE]]
  /\ cart = NoCart
  /\ orders = <<>>
  /\ tasks = [t \in Tasks |-> Idle]
  /\ started = 0
  /\ limit = MaxGeoRequests
  /\ sold = [p \in Products |-> 0]
  /\ supplied = [p \in Products |-> products[p].stock]
  /\ geo \in {GeoInit, GeoWarm}

NextGeo ==
  \/ \E t \in Tasks, a \in Addresses : geocodeAddress(t, a, DefaultMaxRetries)
  \/ \E t \in Tasks : geocodeAddress(t, "oak", 1)
  \/ \E t \in Tasks, c \in Coordinates : reverseGeocode(t, c, DefaultMaxRetries)
  \/ \E t \in Tasks, ok \in BOOLEAN, v \in {"x1", "x2"} : AttemptReturn(t, ok, v)
  \/ \E t \in Tasks : RetryWake(t)
  \/ Tick

SpecGeo == InitGeo /\ [][NextGeo]_vars

\* ============================================================= properties

CommitDoneAt(t) == tasks[t].pc = "done" /\ tasks[t].op = "commit"

\* C1: a commit that fails, at whatever step, has created no order and has
\* decremented no product's stock.
C1_FailedCommitLeavesNothing ==
  \A t \in Tasks :
    (CommitDoneAt(t) /\ tasks[t].res # "Ok")
      => (tasks[t].order = 0 /\ tasks[t].decs = 0)

StockOkAt(t) ==
  tasks[t].pc = "done" /\ tasks[t].op = "updateStock" /\ tasks[t].res = "Ok"

\* C2: whatever the interleaving of updateStock calls (direct or from
\* commits), restocks and product edits, no stored stock is negative.
C2_StockNeverNegative == \A p \in Products : products[p].stock >= 0

\* Two updateStock calls on one product raced, both saved, and more units
\* were taken than were ever in stock.
C2_RacingDecrementsBothSaved ==
  /\ StockOkAt("t1") /\ StockOkAt("t2")
  /\ tasks["t1"].p = tasks["t2"].p
  /\ sold[tasks["t1"].p] > supplied[tasks["t1"].p]

\* C3: the units successfully decremented from a product never exceed the
\* units that were in stock (initial stock plus restocks).
C3_NoOversell == \A p \in Products : sold[p] <= supplied[p]

\* C4: a commit whose availability check finds failing lines answers
\* ItemsUnavailable with exactly those lines (requested quantity, current
\* stock), creates no order, changes no stock and does not clear the cart.
C4_UnavailableLinesListed ==
  \A t \in Tasks :
    (CommitDoneAt(t) /\ Len(tasks[t].found) > 0)
      => /\ tasks[t].res = "ItemsUnavailable"
         /\ tasks[t].payload = tasks[t].found
         /\ tasks[t].order = 0
         /\ tasks[t].decs = 0
         /\ ~tasks[t].cleared

\* The quantity ordered of product p in the lines of an order.
RECURSIVE QtyIn(_, _, _)
QtyIn(items, p, i) ==
  IF i > Len(items) THEN 0
  ELSE (IF items[i].product = p THEN items[i].quantity ELSE 0) + QtyIn(items, p, i + 1)

\* C5: from the lines of one cart (the cart is filled once, before the
\* commits start) at most one order is created, and each line's stock is
\* decremented at most once.
C5_OneOrderPerCart ==
  /\ Len(orders) <= 1
  /\ \A p \in Products :
       sold[p] <= (IF Len(orders) = 0 THEN 0 ELSE QtyIn(orders[1].items, p, 1))

StatusOpDoneAt(t) ==
  tasks[t].pc = "done" /\ tasks[t].op \in {"routeStatus", "updateStatus", "cancelOrder"}

\* C6: a status update or cancel on an order found delivered or cancelled
\* fails with InvalidTransition (requests refused for another reason, a bad
\* status value or another retailer's order, aside).
C6_TerminalAbsorbing ==
  \A t \in Tasks :
    (/\ StatusOpDoneAt(t)
     /\ tasks[t].res \notin {"InvalidStatus", "NotFound", "Forbidden", "ValidationError"}
     /\ tasks[t].seen \in {"delivered", "cancelled"})
      => tasks[t].res = "InvalidTransition"

Rank(status) ==
  CASE status = "pending" -> 1
    [] status = "confirmed" -> 2
    [] status = "processing" -> 3
    [] status = "out_for_delivery" -> 4
    [] status = "delivered" -> 5
    [] OTHER -> 6

\* A step of the lifecycle: forward along the chain, or from a non-terminal
\* status to cancelled.
Forward(a, b) ==
  /\ a \notin {"delivered", "cancelled"}
  /\ \/ b = "cancelled"
     \/ Rank(b) > Rank(a)

\* C7: every change of an order's status is a step of the lifecycle.
C7_StatusOnlyForward ==
  [][\A i \in 1..Len(orders) :
       orders'[i].status # orders[i].status
         => Forward(orders[i].status, orders'[i].status)]_vars

\* Whether adding product p to these lines mixes retailers.
Mixed(items, p) ==
  \E i \in 1..Len(items) : items[i].retailerId # ProductRetailer(p)

AddItemDoneAt(t) == tasks[t].pc = "done" /\ tasks[t].op = "addItem"

\* C8 as claimed: adding a product whose retailer differs from that of a
\* line already in the cart always ends in CrossRetailerConflict.
C8_AlwaysCrossRetailerConflict ==
  \A t \in Tasks :
    (AddItemDoneAt(t) /\ Mixed(tasks[t].seen, tasks[t].p))
      => tasks[t].res = "CrossRetailerConflict"

\* C8 as amended: such an add always fails and writes nothing to the cart;
\* it fails with CrossRetailerConflict once the product passed the
\* existence and availability checks, which come first and answer
\* NotFound or Unavailable (for a product that is indeed not orderable).
C8_MixedAddFailsCartUntouched ==
  [][\A t \in Tasks :
       (/\ tasks'[t] # tasks[t]
        /\ tasks'[t].pc = "done"
        /\ tasks'[t].op = "addItem"
        /\ Mixed(tasks'[t].seen, tasks'[t].p))
         => /\ cart' = cart
            /\ \/ tasks'[t].res = "CrossRetailerConflict"
               \/ tasks'[t].res = "NotFound"
               \/ /\ tasks'[t].res = "Unavailable"
                  /\ ~(tasks'[t].isAvailable /\ tasks'[t].available >= tasks'[t].q)
            /\ tasks[t].pc = "add_save" => tasks'[t].res = "CrossRetailerConflict"]_vars

\* An add of a product of retailer rB to a cart holding a line of rA was
\* rejected by the pre-save hook, the stored cart still holding that line.
C8_ConflictRejected ==
  \E t \in Tasks :
    /\ AddItemDoneAt(t)
    /\ Mixed(tasks[t].seen, tasks[t].p)
    /\ tasks[t].res = "CrossRetailerConflict"
    /\ cart.items = tasks[t].seen

\* C9: the persisted cart never holds lines of two different retailers.
C9_SingleRetailer ==
  \A i, j \in 1..Len(cart.items) :
    cart.items[i].retailerId = cart.items[j].retailerId

\* C10: the persisted cart holds at most one line per product.
C10_OneLinePerProduct ==
  \A i, j \in 1..Len(cart.items) :
    cart.items[i].product = cart.items[j].product => i = j

\* The lines of product p among these lines.
LinesOf(items, p) == {i \in 1..Len(items) : items[i].product = p}

\* C11: an add of P that succeeds on a cart holding one line for P with
\* quantity q1 (the stored cart being the one the handler loaded) leaves
\* exactly that line for P, with quantity q1 + q2 and P's current price,
\* and every other line as it was.
C11_ReAddMerges ==
  [][\A t \in Tasks :
       (/\ tasks[t].pc = "add_save"
        /\ tasks'[t].pc = "done"
        /\ tasks'[t].res = "Ok"
        /\ cart.exists
        /\ cart.items = tasks[t].seen
        /\ Cardinality(LinesOf(cart.items, tasks[t].p)) = 1)
         => LET p == tasks[t].p
                i == FindIndex(cart.items, p) IN
              /\ LinesOf(cart'.items, p) = {i}
              /\ Len(cart'.items) = Len(cart.items)
              /\ cart'.items[i].quantity = cart.items[i].quantity + tasks[t].q
              /\ cart'.items[i].price = products[p].price
              /\ \A j \in 1..Len(cart.items) : j # i => cart'.items[j] = cart.items[j]]_vars

\* A re-add of p1 succeeded on the cart holding p1 x 1 at the old price:
\* the stored line now has the summed quantity and the new price.
C11_MergedAtNewPrice ==
  \E t \in Tasks :
    /\ AddItemDoneAt(t) /\ tasks[t].res = "Ok" /\ tasks[t].p = "p1"
    /\ tasks[t].seen = <<Line("p1", 1, 199)>>
    /\ cart.items = <<Line("p1", 1 + tasks[t].q, 299)>>

\* C12: every order satisfies total = subtotal - discount + tax +
\* deliveryFee, when created and after any later operation on it.
C12_TotalInvariant ==
  \A i \in 1..Len(orders) :
    orders[i].total =
      orders[i].subtotal - orders[i].discount + orders[i].tax + orders[i].deliveryFee

\* An order created from a discounted cart has since been through a status
\* update or a payment update.
C12_DiscountedOrderUpdated ==
  \E i \in 1..Len(orders) :
    /\ orders[i].discount > 0
    /\ orders[i].status # "pending" \/ orders[i].payment.status = "refunded"

\* C13: every order's tax is a tenth of the discounted subtotal, rounded to
\* the cent.
C13_TaxOnDiscountedSubtotal ==
  \A i \in 1..Len(orders) :
    orders[i].tax = (orders[i].subtotal - orders[i].discount + 5) \div 10

\* The lines 2.99 x 2 and 1.99 x 1 of the worked example, as order lines.
WorkedLines(items) ==
  /\ Len(items) = 2
  /\ items[1].price = 299 /\ items[1].quantity = 2
  /\ items[2].price = 199 /\ items[2].quantity = 1

\* C14: the order created from the cart 2.99 x 2, 1.99 x 1 with discount 0
\* and delivery fee 5.00 has subtotal 7.97, tax 0.80 and total 13.77.
C14_WorkedTotals ==
  \A i \in 1..Len(orders) :
    (WorkedLines(orders[i].items) /\ orders[i].discount = 0)
      => /\ orders[i].subtotal = 797
         /\ orders[i].tax = 80
         /\ orders[i].deliveryFee = 500
         /\ orders[i].total = 1377

\* The worked example's cart was committed.
C14_WorkedCartCommitted ==
  \E t \in Tasks :
    /\ CommitDoneAt(t) /\ tasks[t].res = "Ok"
    /\ WorkedLines(orders[tasks[t].order].items)
    /\ orders[tasks[t].order].discount = 0

\* The fields of an order that are fixed at creation.
Frozen(o) == <<o.items, o.subtotal, o.discount, o.tax, o.deliveryFee, o.total>>

\* C15: no step changes the items, subtotal, discount, tax, deliveryFee or
\* total of an existing order (and no order disappears).
C15_OrderImmutable ==
  [][/\ Len(orders') >= Len(orders)
     /\ \A i \in 1..Len(orders) : Frozen(orders'[i]) = Frozen(orders[i])]_vars

\* An order holding a line of p1 at 1.99 went through a status update and
\* p1 was then repriced or deleted.
C15_UpdatedAndProductChanged ==
  \E i \in 1..Len(orders) :
    /\ orders[i].status # "pending"
    /\ ~products["p1"].exists \/ products["p1"].price # 199
    /\ \E k \in 1..Len(orders[i].items) :
         orders[i].items[k].product = "p1" /\ orders[i].items[k].price = 199

\* C16: the step that completes a commit successfully leaves the cart in
\* place with no items, discount 0 and no coupon; and a commit writes the
\* cart only in its clearCart, when its order is stored and its lines have
\* all been decremented.
C16_ClearedOnSuccessOnly ==
  [][/\ \A t \in Tasks :
          (/\ tasks'[t] # tasks[t]
           /\ tasks'[t].pc = "done" /\ tasks'[t].op = "commit"
           /\ tasks'[t].res = "Ok")
            => /\ cart'.exists
               /\ cart'.items = <<>>
               /\ cart'.discount = 0
               /\ cart'.couponCode = "none"
     /\ \A t \in Tasks :
          (/\ tasks'[t] # tasks[t]
           /\ tasks[t].pc \notin {"idle", "done"}
           /\ tasks[t].op = "commit"
           /\ cart' # cart)
            => /\ tasks[t].pc = "cfc_clear"
               /\ tasks[t].order \in 1..Len(orders)
               /\ \A k \in 1..Len(tasks[t].doc.items) :
                    sold[tasks[t].doc.items[k].product]
                      >= tasks[t].doc.items[k].quantity]_vars

\* A commit of a discounted cart succeeded and the stored cart is empty,
\* without discount or coupon.
C16_DiscountedCartCleared ==
  \E t \in Tasks :
    /\ CommitDoneAt(t) /\ tasks[t].res = "Ok" /\ tasks[t].cleared
    /\ orders[tasks[t].order].discount > 0
    /\ cart.exists /\ cart.items = <<>>
    /\ cart.discount = 0 /\ cart.couponCode = "none"

\* C17: no two stored orders share an order number, and an insert that
\* collides with a stored number is rejected and leaves the orders as
\* they were.
C17_UniqueOrderNumbers ==
  /\ [](\A i, j \in 1..Len(orders) :
          orders[i].orderNumber = orders[j].orderNumber => i = j)
  /\ [][\A t \in Tasks :
          (/\ tasks[t].pc = "cfc_insert"
           /\ tasks'[t].pc = "done"
           /\ tasks'[t].err = "DuplicateKey")
            => orders' = orders]_vars

\* A commit drew the number of a stored order and was rejected; the
\* stored order is still the only one.
C17_CollisionRejected ==
  \E t \in Tasks :
    /\ CommitDoneAt(t) /\ tasks[t].err = "DuplicateKey"
    /\ Len(orders) = 1

\* C18: no commit fails on the collision of its (first) generated order
\* number; the insert is retried with a new number.
C18_CollisionRetried ==
  \A t \in Tasks : CommitDoneAt(t) => tasks[t].err # "DuplicateKey"

\* C19: cancelOrder on an order it found delivered fails with
\* InvalidTransition and writes nothing; on any other order it succeeds,
\* the stored order gets status cancelled, the reason as cancelReason and
\* exactly one more history entry, of status cancelled.
C19_CancelContract ==
  [][\A t \in Tasks :
       (/\ tasks'[t] # tasks[t]
        /\ tasks'[t].pc = "done"
        /\ tasks'[t].op = "cancelOrder")
         => LET i == tasks'[t].i IN
              IF tasks'[t].seen = "delivered"
                THEN /\ tasks'[t].res = "InvalidTransition"
                     /\ orders' = orders
                ELSE /\ tasks'[t].res = "Ok"
                     /\ orders'[i].status = "cancelled"
                     /\ orders'[i].cancelReason = "reason"
                     /\ orders'[i].statusHistory =
                          Append(orders[i].statusHistory, Entry("cancelled", "reason"))]_vars

\* C20: a status update (Order.updateStatus or the retailer status route)
\* on an order found cancelled fails with InvalidTransition (requests
\* refused for a bad status value or another retailer's order aside).
C20_CancelledRejectsUpdate ==
  \A t \in Tasks :
    (/\ StatusOpDoneAt(t)
     /\ tasks[t].op \in {"routeStatus", "updateStatus"}
     /\ tasks[t].res \notin {"InvalidStatus", "NotFound", "Forbidden", "ValidationError"}
     /\ tasks[t].seen = "cancelled")
      => tasks[t].res = "InvalidTransition"

\* C21: a request to the retailer status route whose new status is not
\* confirmed, processing, out_for_delivery or delivered is rejected at
\* once and writes nothing to the orders.
C21_RouteAcceptsFourStatuses ==
  [][\A t \in Tasks :
       (/\ tasks'[t] # tasks[t]
        /\ tasks'[t].pc # "idle"
        /\ tasks'[t].op = "routeStatus"
        /\ tasks'[t].status \notin
             {"confirmed", "processing", "out_for_delivery", "delivered"})
         => /\ tasks'[t].pc = "done"
            /\ tasks'[t].res = "InvalidStatus"
            /\ orders' = orders]_vars

\* The route refused to set cancelled on the retailer's own pending order.
C21_CancelledRefused ==
  \E t \in Tasks :
    /\ StatusOpDoneAt(t) /\ tasks[t].op = "routeStatus"
    /\ tasks[t].status = "cancelled" /\ tasks[t].i = 1
    /\ tasks[t].res = "InvalidStatus"
    /\ orders[1].status = "pending"
    /\ Len(orders[1].statusHistory) = 1

\* C22: a call of updateStock(p, q) ends at once with NotFound if p is
\* absent and with InsufficientStock if p's stock is below q, no stock
\* changing; otherwise it goes on to save, and p's stock after the call is
\* its stock when the call began minus q, no other product changing.
C22_DecrementContract ==
  [][\A t \in Tasks :
       (/\ tasks'[t] # tasks[t]
        /\ tasks'[t].pc # "idle"
        /\ tasks'[t].op = "updateStock")
         => LET p == tasks'[t].p
                q == tasks'[t].q IN
              IF Vacant(t) THEN
                /\ products' = products
                /\ ~products[p].exists
                     => tasks'[t].pc = "done" /\ tasks'[t].res = "NotFound"
                /\ (products[p].exists /\ products[p].stock < q)
                     => tasks'[t].pc = "done" /\ tasks'[t].res = "InsufficientStock"
                /\ (products[p].exists /\ products[p].stock >= q)
                     => tasks'[t].pc = "us_save" /\ tasks'[t].read = products[p].stock
              ELSE
                /\ tasks'[t].pc = "done" /\ tasks'[t].res = "Ok"
                /\ products' = [products EXCEPT ![p].stock = tasks[t].read - q]]_vars

\* An updateStock of 2 units on p1 went through: the call began at
\* MaxStock and the stored stock is MaxStock - 2.
C22_DecrementSaved ==
  \E t \in Tasks :
    /\ StockOkAt(t) /\ tasks[t].p = "p1" /\ tasks[t].q = 2
    /\ supplied["p1"] = MaxStock /\ sold["p1"] = 2
    /\ products["p1"].stock = MaxStock - 2

\* The cart apart from its lines and its version.
CartRest(c) == <<c.exists, c.retailer, c.discount, c.couponCode>>

\* C23: updateItemQuantity(p, q) with q <= 0 goes straight to the save of
\* removeItem(p), after which the stored lines are the loaded ones without
\* p; with q > 0 it reaches its save only if p exists, is available and
\* has stock >= q when it is looked up, a successful save leaves the line
\* of p with quantity q, and every failure leaves the cart as it was.
C23_UpdateQuantityContract ==
  [][\A t \in Tasks :
       (/\ tasks'[t] # tasks[t]
        /\ tasks'[t].pc # "idle"
        /\ tasks'[t].op = "updateItemQuantity")
         => LET p == tasks'[t].p
                q == tasks'[t].q IN
              IF Vacant(t) THEN
                /\ cart' = cart
                /\ q <= 0 => /\ tasks'[t].pc = "rm_save"
                              /\ tasks'[t].delta.items = RemoveProduct(cart.items, p)
                /\ q > 0 => tasks'[t].pc = "uq_find"
              ELSE IF tasks[t].pc = "rm_save" THEN
                IF tasks'[t].res = "Ok"
                  THEN /\ cart'.items = RemoveProduct(tasks[t].seen, p)
                       /\ CartRest(cart') = CartRest(cart)
                  ELSE cart' = cart
              ELSE IF tasks[t].pc = "uq_find" THEN
                /\ cart' = cart
                /\ tasks'[t].pc = "uq_save"
                     => /\ products[p].exists
                        /\ products[p].isAvailable
                        /\ products[p].stock >= q
                /\ tasks'[t].pc # "uq_save" => tasks'[t].pc = "done" /\ tasks'[t].res # "Ok"
              ELSE
                IF tasks'[t].res = "Ok"
                  THEN LET i == FindIndex(tasks[t].seen, p) IN
                         /\ Len(cart'.items) = Len(cart.items)
                         /\ cart'.items[i].product = p
                         /\ cart'.items[i].quantity = q
                         /\ \A j \in 1..Len(cart.items) :
                              j # i => cart'.items[j] = cart.items[j]
                         /\ CartRest(cart') = CartRest(cart)
                  ELSE cart' = cart]_vars

\* updateItemQuantity(p1, 2) succeeded on the cart p1 x 1, p2 x 1: the
\* line of p1 now has quantity 2, the line of p2 is as it was.
C23_QuantitySet ==
  \E t \in Tasks :
    /\ tasks[t].pc = "done" /\ tasks[t].op = "updateItemQuantity"
    /\ tasks[t].res = "Ok" /\ tasks[t].p = "p1" /\ tasks[t].q = 2
    /\ Len(cart.items) = 2
    /\ cart.items[1].product = "p1" /\ cart.items[1].quantity = 2
    /\ cart.items[2] = Line("p2", 1, 299)

\* What verifyAvailability has to report for a line, given the catalog.
LineFails(line) ==
  \/ ~products[line.product].exists
  \/ ~products[line.product].isAvailable
  \/ products[line.product].stock < line.quantity

Report(line) ==
  [productId |-> line.product, requested |-> line.quantity,
   available |-> IF products[line.product].exists
                   THEN products[line.product].stock ELSE 0,
   isAvailable |-> products[line.product].exists
                     /\ products[line.product].isAvailable]

\* C24: each pass of the loop of verifyAvailability adds the report of
\* its line to the list exactly when the product is missing, not flagged
\* available or short of stock at that moment (requested = the line's
\* quantity, available = the stock, or 0 and isAvailable false for a
\* missing product); after the last line the result is valid exactly when
\* the list is empty; no pass changes the cart or the catalog.
C24_VerifyAvailabilityContract ==
  [][\A t \in Tasks :
       (tasks'[t] # tasks[t] /\ tasks[t].pc \in {"ord_verify", "cfc_verify"})
         => LET doc == tasks[t].doc
                i == tasks[t].i
                line == doc.items[i]
                list == IF LineFails(line)
                          THEN Append(tasks[t].found, Report(line))
                          ELSE tasks[t].found IN
              /\ cart' = cart
              /\ products' = products
              /\ tasks'[t].pc # "done" /\ i < Len(doc.items)
                   => tasks'[t].pc = tasks[t].pc /\ tasks'[t].found = list
              /\ i = Len(doc.items)
                   => /\ (list = <<>>) <=> (tasks'[t].pc # "done")
                      /\ tasks'[t].pc = "done"
                           => /\ tasks'[t].found = list
                              /\ tasks[t].pc = "ord_verify"
                                   => tasks'[t].payload = list
              /\ i < Len(doc.items) => tasks'[t].pc # "done"]_vars

\* The checkout of the cart p1 x 1, p2 x 1 was refused with both lines
\* listed: p1 short of stock or unavailable, p2 deleted.
C24_BothLinesReported ==
  \E t \in Tasks :
    /\ CommitDoneAt(t) /\ tasks[t].res = "ItemsUnavailable"
    /\ Len(tasks[t].payload) = 2
    /\ tasks[t].payload[1].productId = "p1"
    /\ tasks[t].payload[1].requested = 1
    /\ tasks[t].payload[2] = [productId |-> "p2", requested |-> 1,
                               available |-> 0, isAvailable |-> FALSE]
    /\ ~products["p2"].exists

\* The sum of price * quantity over the lines of a cart.
RECURSIVE CartAmount(_)
CartAmount(items) ==
  IF items = <<>> THEN 0
  ELSE Head(items).price * Head(items).quantity + CartAmount(Tail(items))

\* C25: the order a commit inserts has, line by line, the product,
\* quantity and unit price of the cart lines the commit read, and their
\* sum as its subtotal, whatever the products' prices are at that moment.
C25_PriceAtAdd ==
  [][\A t \in Tasks :
       (tasks[t].pc = "cfc_insert" /\ tasks'[t].pc = "cfc_stock")
         => LET lines == tasks[t].doc.items
                order == orders'[Len(orders')] IN
              /\ Len(orders') = Len(orders) + 1
              /\ Len(order.items) = Len(lines)
              /\ \A i \in 1..Len(lines) :
                   /\ order.items[i].product = lines[i].product
                   /\ order.items[i].quantity = lines[i].quantity
                   /\ order.items[i].price = lines[i].price
              /\ order.subtotal = CartAmount(lines)]_vars

\* The retailer raised p1's price to 2.49 after the add at 1.99; the
\* checkout that followed committed the line at 1.99.
C25_CommittedAtCartPrice ==
  /\ tasks["t2"] = Idle
  /\ started = 2
  /\ CommitDoneAt("t1") /\ tasks["t1"].res = "Ok"
  /\ products["p1"].price = 249
  /\ Len(orders) = 1
  /\ \E i \in 1..Len(orders[1].items) :
       orders[1].items[i].product = "p1" /\ orders[1].items[i].price = 199
  /\ orders[1].subtotal \in {199, 797}

\* C26: the order a commit inserts has status pending, payment status
\* pending for cash_on_delivery and completed for any other method, and a
\* status history of the one entry (pending, 'Order created').
C26_NewOrderInitialState ==
  [][/\ Len(orders') # Len(orders)
        => \E t \in Tasks : tasks[t].pc = "cfc_insert" /\ tasks'[t].pc = "cfc_stock"
     /\ \A t \in Tasks :
       (tasks[t].pc = "cfc_insert" /\ tasks'[t].pc = "cfc_stock")
         => LET order == orders'[Len(orders')] IN
              /\ Len(orders') = Len(orders) + 1
              /\ order.status = "pending"
              /\ order.payment.method = tasks[t].method
              /\ tasks[t].method = "cash_on_delivery"
                   => order.payment.status = "pending"
              /\ tasks[t].method # "cash_on_delivery"
                   => order.payment.status = "completed"
              /\ Len(order.statusHistory) = 1
              /\ order.statusHistory[1].status = "pending"
              /\ order.statusHistory[1].note = "Order created"]_vars

\* A checkout paid by card has just inserted its order: pending, payment
\* completed, one history entry.
C26_CardOrderInserted ==
  \E t \in Tasks :
    /\ tasks[t].pc = "cfc_stock" /\ tasks[t].i = 1
    /\ orders[tasks[t].order].payment.method = "card"
    /\ orders[tasks[t].order].payment.status = "completed"
    /\ orders[tasks[t].order].status = "pending"
    /\ Len(orders[tasks[t].order].statusHistory) = 1

\* C27: a commit in its stock loop whose line finds its product missing
\* or with less stock than the line's quantity, or whose save of the new
\* stock is refused, ends at that step: it answers a failure, the lines
\* decremented are the ones before that line, no stock and no cart line
\* changes at that step, and the cart is not cleared.
C27_StockFailureAborts ==
  [][\A t \in Tasks :
       (tasks'[t] # tasks[t] /\ tasks[t].pc \in {"cfc_stock", "cfc_stock_save"})
         => LET i == tasks[t].i
                line == tasks[t].doc.items[i]
                failed == IF tasks[t].pc = "cfc_stock"
                            THEN \/ ~products[line.product].exists
                                 \/ products[line.product].stock < line.quantity
                          ELSE \/ ~products[line.product].exists
                               \/ tasks[t].newStock < 0 IN
              IF failed
                THEN /\ CommitDoneAt(t)'
                     /\ tasks'[t].res = "ServerError"
                     /\ tasks'[t].decs = i - 1
                     /\ ~tasks'[t].cleared
                     /\ products' = products
                     /\ cart' = cart
                ELSE ~CommitDoneAt(t)']_vars

\* The checkout of the cart p1 x 1, p2 x 1 inserted its order and failed
\* on the first line for lack of stock: the answer is a failure, p2's
\* stock was not touched and the cart still has its two lines.
C27_FirstLineFailed ==
  \E t \in Tasks :
    /\ CommitDoneAt(t) /\ tasks[t].res = "ServerError"
    /\ tasks[t].err = "Insufficient stock"
    /\ tasks[t].order > 0 /\ tasks[t].decs = 0
    /\ Len(orders[tasks[t].order].items) = 2
    /\ Len(cart.items) = 2
    /\ products["p2"].stock = supplied["p2"] /\ sold["p2"] = 0

\* C28: a request of the status route by a retailer none of whose lines
\* is in the order ends at once with a refusal, and the order (status,
\* history, delivery dates) is as it was.
C28_ForeignRetailerRejected ==
  [][\A t \in Tasks :
       (/\ tasks'[t] # tasks[t]
        /\ Vacant(t)
        /\ tasks'[t].pc # "idle"
        /\ tasks'[t].op = "routeStatus"
        /\ tasks'[t].i <= Len(orders)
        /\ \A k \in 1..Len(orders[tasks'[t].i].items) :
             orders[tasks'[t].i].items[k].retailer # tasks'[t].r)
         => /\ tasks'[t].pc = "done"
            /\ tasks'[t].res \in {"Forbidden", "InvalidStatus"}
            /\ orders' = orders]_vars

\* Retailer rB asked for 'delivered' on the order of rA's product and
\* got the 403; the order is still pending with its one history entry.
C28_ForbiddenAnswered ==
  \E t \in Tasks :
    /\ tasks[t].pc = "done" /\ tasks[t].op = "routeStatus"
    /\ tasks[t].res = "Forbidden"
    /\ tasks[t].r = "rB" /\ tasks[t].status = "delivered"
    /\ orders[tasks[t].i].status = "pending"
    /\ Len(orders[tasks[t].i].statusHistory) = 1
    /\ orders[tasks[t].i].actualDeliveryDate = "none"

\* C29: the customer never has more than one cart document, and a cart
\* that exists still exists after every step (add, remove, clearCart and
\* the first-access requests included).
C29_OneCartPerCustomer ==
  /\ [](cart.docs <= 1 /\ (cart.exists <=> cart.docs = 1))
  /\ [][cart.exists => cart'.exists /\ cart'.docs = cart.docs]_vars

\* GET /cart and POST /cart/add both found no cart and both tried to
\* insert one: one insert succeeded, the other was refused.
C29_SecondInsertRefused ==
  /\ {tasks["t1"].pc, tasks["t2"].pc} = {"done"}
  /\ {tasks["t1"].op, tasks["t2"].op} = {"getCart", "addItem"}
  /\ {tasks["t1"].res, tasks["t2"].res} = {"Ok", "DuplicateKey"}
  /\ cart.exists /\ cart.docs = 1

\* C30: every stored order has a non-empty status history whose last
\* entry carries the order's current status.
C30_HistoryEndsAtStatus ==
  \A i \in 1..Len(orders) :
    /\ Len(orders[i].statusHistory) >= 1
    /\ orders[i].statusHistory[Len(orders[i].statusHistory)].status
         = orders[i].status

\* C31: while a checkout is the only request, no step changes a product's
\* existence, price or availability flag, and when it has succeeded every
\* product's stock is what was supplied minus the quantity the order's
\* lines hold of it (nothing for a product the order does not mention).
C31_CommitStockFrame ==
  /\ []((started = 1 /\ CommitDoneAt("t1") /\ tasks["t1"].res = "Ok")
          => /\ Len(orders) = 1
             /\ \A p \in Products :
                  products[p].stock = supplied[p] - QtyIn(orders[1].items, p, 1))
  /\ [][(started' = 1 /\ tasks'["t1"].pc # "idle" /\ tasks'["t1"].op = "commit")
          => \A p \in Products :
               /\ products'[p].exists = products[p].exists
               /\ products'[p].price = products[p].price
               /\ products'[p].isAvailable = products[p].isAvailable]_vars

\* The checkout of the cart p1 x MaxQty, alone, succeeded: p1's stock went
\* from MaxStock to MaxStock - MaxQty, p2's and p3's are as they were.
C31_LoneCommitDone ==
  /\ started = 1 /\ CommitDoneAt("t1") /\ tasks["t1"].res = "Ok"
  /\ Len(orders[1].items) = 1 /\ orders[1].items[1].quantity = MaxQty
  /\ supplied["p1"] = MaxStock
  /\ products["p1"].stock = MaxStock - MaxQty
  /\ products["p2"].stock = supplied["p2"]
  /\ products["p3"].stock = supplied["p3"]

\* C32: when the save of an addItem or an updateItemQuantity succeeds, the
\* stored line of the product has a quantity that does not exceed the
\* stock the operation read.
C32_QuantityWithinStock ==
  [][\A t \in Tasks :
       (/\ tasks[t].pc \in {"add_save", "uq_save"}
        /\ tasks'[t].pc = "done"
        /\ tasks'[t].res = "Ok")
         => cart'.items[FindIndex(cart'.items, tasks[t].p)].quantity
              <= tasks[t].stock]_vars

\* The operations on the cart.
CartOps == {"addItem", "removeItem", "updateItemQuantity", "clearCart", "getCart"}

\* Task t takes this step.
Moves(t) == tasks'[t] # tasks[t]

\* C33: no step of addItem, removeItem, updateItemQuantity, clearCart or
\* verifyAvailability changes a product; a product's stock changes only in
\* the save of an updateStock (called directly or by a commit's stock
\* loop), of an addStock or of a retailer's product edit, on that product.
C33_CartReservesNothing ==
  [][/\ \A t \in Tasks :
          (/\ Moves(t)
           /\ tasks'[t].pc # "idle"
           /\ \/ tasks'[t].op \in CartOps
              \/ tasks[t].pc \in {"ord_verify", "cfc_verify"})
            => products' = products
     /\ \A p \in Products :
          products'[p].stock # products[p].stock
            => \E t \in Tasks :
                 /\ Moves(t)
                 /\ \/ tasks[t].pc \in {"us_save", "as_save", "ep_save"}
                         /\ tasks[t].p = p
                    \/ tasks[t].pc = "cfc_stock_save"
                         /\ tasks[t].doc.items[tasks[t].i].product = p]_vars

\* An add of p1 to the cart succeeded and every product's stock is what
\* was supplied: nothing was set aside for the cart.
C33_AddedNothingReserved ==
  \E t \in Tasks :
    /\ tasks[t].pc = "done" /\ tasks[t].op = "addItem" /\ tasks[t].res = "Ok"
    /\ tasks[t].p = "p1"
    /\ \E i \in 1..Len(cart.items) : cart.items[i].product = "p1"
    /\ \A p \in Products : products[p].stock = supplied[p] /\ sold[p] = 0

\* C34: the order a commit inserts records the tax, the delivery fee and
\* the total that the cart the commit read reports.
C34_ChargedWhatCartShowed ==
  [][\A t \in Tasks :
       (tasks[t].pc = "cfc_insert" /\ tasks'[t].pc = "cfc_stock")
         => LET doc == tasks[t].doc
                order == orders'[Len(orders')] IN
              /\ order.tax = CartTax(doc.items, doc.discount)
              /\ order.deliveryFee = CartDeliveryFee
              /\ order.total = CartTotal(doc.items, doc.discount)]_vars

\* C35: a stored cart with at least one line has, as its retailer, the
\* retailerId of every one of its lines.
C35_RetailerMatchesLines ==
  (cart.exists /\ Len(cart.items) >= 1)
    => \A i \in 1..Len(cart.items) : cart.items[i].retailerId = cart.retailer


GeoOps == {"geocodeAddress", "reverseGeocode"}

\* A call of the geocoder that has made at least one external attempt.
GeoCalling(t) ==
  \/ tasks[t].pc \in {"geo_call", "geo_sleep"}
  \/ tasks[t].pc = "done" /\ tasks[t].op \in GeoOps

\* C36: a call of geocodeAddress or reverseGeocode makes at most
\* maxRetries + 1 external attempts; it ends with an error only after
\* exactly that many, all failed; when an attempt returns, the call either
\* ends, with no further attempt, or has failed with retries left and
\* sleeps; and an attempt that fails with no retry left ends the call with
\* the error.
C36_BoundedAttempts ==
  /\ [](\A t \in Tasks : GeoCalling(t) =>
         /\ tasks[t].attempts <= tasks[t].mr + 1
         /\ (tasks[t].pc = "done" /\ tasks[t].res = "Failed")
              => tasks[t].attempts = tasks[t].mr + 1)
  /\ [][\A t \in Tasks : (tasks[t].pc = "geo_call" /\ Moves(t)) =>
         /\ tasks'[t].attempts = tasks[t].attempts
         /\ \/ tasks'[t].pc = "done" /\ tasks'[t].res \in {"Ok", "Failed"}
            \/ /\ tasks'[t].pc = "geo_sleep"
               /\ geo' = geo
               /\ tasks[t].attempts < tasks[t].mr + 1
         /\ (tasks[t].attempts = tasks[t].mr + 1) => tasks'[t].pc = "done"
         /\ geo'.cache # geo.cache => (tasks'[t].pc = "done" /\ tasks'[t].res = "Ok")]_vars

\* A call with the default maxRetries has failed after three attempts.
C36_FailedAfterThree ==
  \E t \in Tasks :
    /\ tasks[t].pc = "done" /\ tasks[t].op = "reverseGeocode"
    /\ tasks[t].res = "Failed"
    /\ tasks[t].mr = DefaultMaxRetries /\ tasks[t].attempts = 3


\* An address with its letters in lower case, for comparing two addresses
\* without regard to case.
CaseFolded(a) == IF a \in {"main", "MAIN"} THEN "main" ELSE a

\* C37: a geocodeAddress for an address whose cache entry (stored by a
\* successful geocodeAddress for the same address up to case) is present
\* and younger than the TTL returns the coordinates of that entry at once:
\* no external attempt, apiCalls and the cache untouched, whatever the
\* counter's value.
C37_CachedAnswer ==
  [][\A t \in Tasks :
       (/\ started' = started + 1
        /\ Moves(t)
        /\ tasks'[t].op = "geocodeAddress"
        /\ \E i \in 1..Len(geo.cache) :
             /\ geo.cache[i].key = CaseFolded(tasks'[t].arg)
             /\ geo.cache[i].ts + MaxCacheTtl > geo.now)
       => /\ tasks'[t].pc = "done"
          /\ tasks'[t].res = "Ok"
          /\ tasks'[t].attempts = 0
          /\ \E i \in 1..Len(geo.cache) :
               /\ geo.cache[i].key = CaseFolded(tasks'[t].arg)
               /\ geo.cache[i].value = tasks'[t].value
          /\ geo' = geo]_vars

\* "MAIN" has been answered from the cache, with the second result stored
\* for it, while the counter stood at the limit.
C37_AnsweredAtLimit ==
  \E t \in Tasks :
    /\ tasks[t].pc = "done" /\ tasks[t].op = "geocodeAddress"
    /\ tasks[t].arg = "MAIN" /\ tasks[t].res = "Ok"
    /\ tasks[t].attempts = 0 /\ tasks[t].value = "x2"
    /\ geo.count >= MaxRateLimit


\* C38: apiCalls.count, the external calls counted since the window was
\* last reset, never exceeds the configured limit.
C38_CallsWithinLimit == geo.count <= MaxRateLimit


\* The entries of a cache, as a set.
Entries(cache) == {cache[i] : i \in 1..Len(cache)}

\* C39: the cache never holds more than the maximum number of entries, so
\* in particular when a call returns; and when a call stores its result,
\* the cache becomes the old cache with the new entry put in place of any
\* entry of the same key, less exactly one entry if that is over the
\* maximum and none otherwise, and the entry left out has a timestamp no
\* later than any other's.
C39_CacheBounded ==
  /\ [](Len(geo.cache) <= MaxCacheSize)
  /\ [][\A t \in Tasks :
         (tasks[t].pc = "geo_call" /\ Moves(t)
            /\ tasks'[t].pc = "done" /\ tasks'[t].res = "Ok")
         => LET new == [key |-> tasks[t].key, value |-> tasks'[t].value,
                        ts |-> geo.now]
                stored == {e \in Entries(geo.cache) : e.key # new.key} \cup {new}
                left == Entries(geo'.cache)
            IN /\ left \subseteq stored
               /\ Len(geo'.cache) = Cardinality(left)
               /\ Cardinality(stored \ left) =
                    IF Cardinality(stored) > MaxCacheSize THEN 1 ELSE 0
               /\ \A e \in stored \ left : \A f \in stored : e.ts <= f.ts]_vars

\* A call that stored its result in a full cache has removed the entry for
\* "main", and the cache is full again.
C39_OldestEvicted ==
  /\ Len(geo.cache) = MaxCacheSize
  /\ \E t \in Tasks :
       /\ tasks[t].pc = "done" /\ tasks[t].res = "Ok" /\ tasks[t].attempts >= 1
       /\ tasks[t].removed = "main"
       /\ \E i \in 1..Len(geo.cache) : geo.cache[i].key = tasks[t].key
  /\ \A i \in 1..Len(geo.cache) : geo.cache[i].key # "main"

=============================================================================
